---- MODULE Spec2Model ----
(***************************************************************************)
(* Rotatable-rectangle editor of the NZCVM web application                 *)
(* (js/rectangleControls.js, js/formHandler.js, js/utils.js,               *)
(* js/apiClient.js).                                                       *)
(*                                                                         *)
(* Number system.  The JavaScript code computes in floating point; the     *)
(* model computes in fixed point on integers:                              *)
(*   - latitudes and longitudes are counted in ticks of 0.5e-6 degree, half *)
(*     the resolution of the form's toFixed(6) fields;                    *)
(*   - lengths are counted in units u with 4 u per latitude tick, so that  *)
(*     1 km = 72000 u and 1 m = 72 u (the 111.32 km per degree of utils.js *)
(*     becomes 4 u per tick);                                              *)
(*   - Math.cos(latitude) is a staircase CosNum(lat)/CosDen taking the     *)
(*     values 1, 3/4 and 1/2 (around 0, 41.4 and 60 degrees);              *)
(*   - screen coordinates are counted in pu, 3 pu per longitude tick; the  *)
(*     map host's projection is the Mercator projection that belongs to    *)
(*     the staircase cosine, and it converts without rounding;             *)
(*   - rotations are whole degrees, and sines and cosines are tabulated    *)
(*     for the multiples of 90 degrees.                                    *)
(* Division rounds to the nearest integer.                                 *)
(***************************************************************************)
EXTENDS Integers, Sequences, FiniteSets, TLC

\* ------------------------------------------------------------------------
\* Bounds of the exploration
\* ------------------------------------------------------------------------
\* pointer-moves of a session and form edits handled in one run
MaxFrames == 2

\* pointer-downs handled in one run
MaxDowns == 2

\* whole turns added to or taken from an angle
MaxTurns == 2

\* clicks on generate handled in one run
MaxClicks == 2

\* calls of loadGeoJSONByModelVersion in one run
MaxLoads == 2

\* ------------------------------------------------------------------------
\* Program constants, in model units
\* ------------------------------------------------------------------------
TicksPerDeg == 2000000
KmPerTick == 4
CosDen == 4
UPerM == 72
PuPerLngTick == 3
initialOriginLat == -82573000
initialOriginLon == 349552400
initialExtentX == 300000
initialExtentY == 300000
rotationHandleDistance == 50
minSizePixels == 20
\* the NaN parseFloat returns for a field that is not a number
NaN == -2147483647

\* 0.001 degree
minSize == 2000

\* the run time above which generation is refused: 600 s, in milliseconds
runtimeLimit == 600000

\* ------------------------------------------------------------------------
\* Arithmetic
\* ------------------------------------------------------------------------
Abs(x) == IF x < 0 THEN -x ELSE x

Min(a, b) == IF a < b THEN a ELSE b

Max(a, b) == IF a > b THEN a ELSE b

\* a / b of JavaScript, rounded to the nearest integer (b > 0)
Div(a, b) == IF a >= 0 THEN (a + b \div 2) \div b ELSE -(((-a) + b \div 2) \div b)

\* a % n of JavaScript: the remainder has the sign of the dividend
JsMod(a, n) == IF a >= 0 THEN a % n ELSE -((-a) % n)

\* angle % 360 alone, which keeps the sign of a negative angle
NormalizeAngleOnce(angle) == JsMod(angle, 360)

\* ((angle % 360) + 360) % 360
NormalizeAngle(angle) == JsMod(JsMod(angle, 360) + 360, 360)

\* TrigDen * Math.cos and TrigDen * Math.sin of an angle in degrees: the
\* multiples of 90, and the angle of the 3-4-5 triangle (36.87 degrees, written
\* 37), its complement (53) and their quarter turns
TrigDen == 5

CosDeg(a) ==
  CASE a % 360 = 0 -> 5 [] a % 360 = 90 -> 0 [] a % 360 = 180 -> -5 [] a % 360 = 270 -> 0
    [] a % 360 = 37 -> 4 [] a % 360 = 127 -> -3 [] a % 360 = 217 -> -4 [] a % 360 = 307 -> 3
    [] a % 360 = 53 -> 3 [] a % 360 = 143 -> -4 [] a % 360 = 233 -> -3 [] a % 360 = 323 -> 4

SinDeg(a) ==
  CASE a % 360 = 0 -> 0 [] a % 360 = 90 -> 5 [] a % 360 = 180 -> 0 [] a % 360 = 270 -> -5
    [] a % 360 = 37 -> 3 [] a % 360 = 127 -> 4 [] a % 360 = 217 -> -3 [] a % 360 = 307 -> -4
    [] a % 360 = 53 -> 4 [] a % 360 = 143 -> 3 [] a % 360 = 233 -> -4 [] a % 360 = 323 -> -3

\* Math.atan2(dy, dx) in degrees, for vectors along an axis
Atan2Deg(dy, dx) == CASE dy = 0 /\ dx >= 0 -> 0 [] dx = 0 /\ dy > 0 -> 90 [] dy = 0 /\ dx < 0 -> 180 [] dx = 0 /\ dy < 0 -> -90

\* Math.sqrt(v) rounded down, 0 <= v < 2^31
RECURSIVE SqrtBetween(_, _, _)
SqrtBetween(v, lo, hi) ==
  IF lo >= hi THEN lo
  ELSE LET mid == (lo + hi + 1) \div 2
       IN IF mid * mid <= v THEN SqrtBetween(v, mid, hi) ELSE SqrtBetween(v, lo, mid - 1)

Sqrt(v) == SqrtBetween(v, 0, 46340)

\* Math.sqrt(x*x + y*y): exact for vectors along an axis, in steps of HypotUnit
\* for the others
HypotUnit == 4096

Hypot(x, y) ==
  CASE y = 0 -> Abs(x)
    [] x = 0 -> Abs(y)
    [] OTHER -> HypotUnit * Sqrt(Div(x, HypotUnit) * Div(x, HypotUnit) + Div(y, HypotUnit) * Div(y, HypotUnit))

\* 4 * Math.cos(latitude): staircase over the latitude bands
BandLat1 == 29 * TicksPerDeg

BandLat2 == 51 * TicksPerDeg

CosNum(lat) == IF Abs(lat) < BandLat1 THEN 4 ELSE IF Abs(lat) < BandLat2 THEN 3 ELSE 2

\* ------------------------------------------------------------------------
\* utils.js
\* ------------------------------------------------------------------------
\* kmToDegrees dividing by 111.32 for the longitude too, whatever the latitude
kmToDegreesAtEquator(km, centerLat) == [lat |-> Div(km, KmPerTick), lon |-> Div(km, CosDen)]

\* kmToDegrees(km, centerLat): lat = km / 111.32, lon = km / (111.32 cos)
kmToDegrees(km, centerLat) == [lat |-> Div(km, KmPerTick), lon |-> Div(km, CosNum(centerLat))]

\* degreesToKm(lat, lon, centerLat)
degreesToKm(lat, lon, centerLat) == [latKm |-> lat * KmPerTick, lonKm |-> lon * CosNum(centerLat)]

\* L.latLngBounds([a, b]): the box spanned by two points
latLngBounds(a, b) == [s |-> Min(a.lat, b.lat), w |-> Min(a.lng, b.lng), n |-> Max(a.lat, b.lat), e |-> Max(a.lng, b.lng)]

calculateBoundsFromOriginAndExtents(originLat, originLon, extentX, extentY) ==
  LET extentsDegrees == kmToDegrees(Div(extentX, 2), originLat)
      extentsDegreesY == kmToDegrees(Div(extentY, 2), originLat)
  IN latLngBounds([lat |-> originLat - extentsDegreesY.lat, lng |-> originLon - extentsDegrees.lon],
                  [lat |-> originLat + extentsDegreesY.lat, lng |-> originLon + extentsDegrees.lon])

\* the direction of p2 alone, not measured from p1
calculateAngleAbsolute(center, p1, p2) == Atan2Deg(p2.lat - center.lat, p2.lng - center.lng)

\* calculateAngle(center, p1, p2), degrees
calculateAngle(center, p1, p2) ==
  Atan2Deg(p2.lat - center.lat, p2.lng - center.lng) - Atan2Deg(p1.lat - center.lat, p1.lng - center.lng)

\* ------------------------------------------------------------------------
\* Leaflet: bounds, projection, distance
\* ------------------------------------------------------------------------
getCenter(b) == [lat |-> Div(b.s + b.n, 2), lng |-> Div(b.w + b.e, 2)]

getSouthWest(b) == [lat |-> b.s, lng |-> b.w]

getNorthEast(b) == [lat |-> b.n, lng |-> b.e]

getNorthWest(b) == [lat |-> b.n, lng |-> b.w]

getSouthEast(b) == [lat |-> b.s, lng |-> b.e]

\* L.latLngBounds(array of four points): their bounding box
latLngBounds4(c) ==
  [s |-> Min(Min(c[1].lat, c[2].lat), Min(c[3].lat, c[4].lat)),
   w |-> Min(Min(c[1].lng, c[2].lng), Min(c[3].lng, c[4].lng)),
   n |-> Max(Max(c[1].lat, c[2].lat), Max(c[3].lat, c[4].lat)),
   e |-> Max(Max(c[1].lng, c[2].lng), Max(c[3].lng, c[4].lng))]

\* Mercator ordinate of a latitude, in pu: slope 12 / CosNum per tick
MercY(lat) ==
  LET a == Abs(lat)
      y == IF a <= BandLat1 THEN 3 * a
           ELSE IF a <= BandLat2 THEN 3 * BandLat1 + 4 * (a - BandLat1)
           ELSE 3 * BandLat1 + 4 * (BandLat2 - BandLat1) + 6 * (a - BandLat2)
  IN IF lat < 0 THEN -y ELSE y

InvMercY(y) ==
  LET a == Abs(y)
      y1 == 3 * BandLat1
      y2 == 3 * BandLat1 + 4 * (BandLat2 - BandLat1)
      l == IF a <= y1 THEN Div(a, 3)
           ELSE IF a <= y2 THEN BandLat1 + Div(a - y1, 4)
           ELSE BandLat2 + Div(a - y2, 6)
  IN IF y < 0 THEN -l ELSE l

\* pu per screen pixel at a zoom level
PuPerPx(z) == IF z = 6 THEN 131072 ELSE 256

\* map.latLngToContainerPoint / map.latLngToLayerPoint
latLngToContainerPoint(p) ==
  [x |-> PuPerLngTick * (p.lng - initialOriginLon), y |-> MercY(initialOriginLat) - MercY(p.lat)]

\* map.containerPointToLatLng / map.layerPointToLatLng
containerPointToLatLng(q) ==
  [lat |-> InvMercY(MercY(initialOriginLat) - q.y), lng |-> initialOriginLon + Div(q.x, PuPerLngTick)]

\* map.distance(a, b) along a meridian or along a parallel, in u
mapDistance(a, b) ==
  IF a.lng = b.lng THEN KmPerTick * Abs(a.lat - b.lat) ELSE CosNum(a.lat) * Abs(a.lng - b.lng)

\* rotatePoint(point, centerPt, angle) of rectangleControls.js, angle in degrees
rotatePoint(point, centerPt, angle) ==
  LET x == point.x - centerPt.x
      y == point.y - centerPt.y
  IN [x |-> centerPt.x + Div(x * CosDeg(angle) - y * SinDeg(angle), TrigDen),
      y |-> centerPt.y + Div(x * SinDeg(angle) + y * CosDeg(angle), TrigDen)]

\* unrotatePoint(point, centerPt, angle) of handleSideResize
unrotatePoint(point, centerPt, angle) == rotatePoint(point, centerPt, 360 - angle)

\* ------------------------------------------------------------------------
\* RotatableRectangle (rectangleControls.js)
\* ------------------------------------------------------------------------
\* _calculateCorners(bounds, angle): [SW, SE, NE, NW] rotated clockwise about
\* the centre in kilometre space
\* the east offset left as it is, whatever the angle
RotateKmXUnturned(dxKm, dyKm, angle) == dxKm

RotateKmX(dxKm, dyKm, angle) == Div(dxKm * CosDeg(-angle) - dyKm * SinDeg(-angle), TrigDen)

RotateKmY(dxKm, dyKm, angle) == Div(dxKm * SinDeg(-angle) + dyKm * CosDeg(-angle), TrigDen)

calculateCorners(b, angle) ==
  LET center == getCenter(b)
      degreeExtents == degreesToKm(b.n - b.s, b.e - b.w, center.lat)
      halfWidthKm == Div(degreeExtents.lonKm, 2)
      halfHeightKm == Div(degreeExtents.latKm, 2)
      relativeCorners == << <<-halfWidthKm, -halfHeightKm>>, <<halfWidthKm, -halfHeightKm>>,
                            <<halfWidthKm, halfHeightKm>>, <<-halfWidthKm, halfHeightKm>> >>
      corner(i) ==
        LET dxKm == relativeCorners[i][1]
            dyKm == relativeCorners[i][2]
            latOffsetDeg == Div(RotateKmY(dxKm, dyKm, angle), KmPerTick)
            lngOffsetDeg == Div(RotateKmX(dxKm, dyKm, angle), CosNum(center.lat))
        IN [lat |-> center.lat + latOffsetDeg, lng |-> center.lng + lngOffsetDeg]
  IN [i \in 1..4 |-> corner(i)]

\* updateRotationHandlePosition: where the rotation handle is put
rotationHandlePosition(b, angle, z) ==
  LET center == getCenter(b)
      topCenter == [lat |-> b.n, lng |-> center.lng]
      centerPoint == latLngToContainerPoint(center)
      rotatedTopCenter == rotatePoint(latLngToContainerPoint(topCenter), centerPoint, angle)
      handlePoint == [x |-> rotatedTopCenter.x + Div(rotationHandleDistance * PuPerPx(z) * SinDeg(angle), TrigDen),
                      y |-> rotatedTopCenter.y - Div(rotationHandleDistance * PuPerPx(z) * CosDeg(angle), TrigDen)]
  IN containerPointToLatLng(handlePoint)

\* updateResizeHandlesPosition: where the corner and side handles are put
cornerHandlePoints(b, angle) ==
  LET centerPoint == latLngToContainerPoint(getCenter(b))
  IN [topLeft |-> rotatePoint(latLngToContainerPoint(getNorthWest(b)), centerPoint, angle),
      topRight |-> rotatePoint(latLngToContainerPoint(getNorthEast(b)), centerPoint, angle),
      bottomLeft |-> rotatePoint(latLngToContainerPoint(getSouthWest(b)), centerPoint, angle),
      bottomRight |-> rotatePoint(latLngToContainerPoint(getSouthEast(b)), centerPoint, angle)]

midPoint(p, q) == [x |-> Div(p.x + q.x, 2), y |-> Div(p.y + q.y, 2)]

resizeHandlePositions(b, angle) ==
  LET c == cornerHandlePoints(b, angle)
  IN [topLeft |-> containerPointToLatLng(c.topLeft),
      topRight |-> containerPointToLatLng(c.topRight),
      bottomLeft |-> containerPointToLatLng(c.bottomLeft),
      bottomRight |-> containerPointToLatLng(c.bottomRight),
      top |-> containerPointToLatLng(midPoint(c.topLeft, c.topRight)),
      right |-> containerPointToLatLng(midPoint(c.topRight, c.bottomRight)),
      bottom |-> containerPointToLatLng(midPoint(c.bottomLeft, c.bottomRight)),
      left |-> containerPointToLatLng(midPoint(c.topLeft, c.bottomLeft))]

CornerPositions == {"topLeft", "topRight", "bottomLeft", "bottomRight"}

SidePositions == {"top", "right", "bottom", "left"}

\* ------------------------------------------------------------------------
\* The form (formHandler.js)
\* ------------------------------------------------------------------------
\* Number.toFixed(3) of a length in kilometres: whole metres
toFixed3Km(u) == Div(u, UPerM)

\* parseFloat of an extent field, as a length in u
parseKm(m) == m * UPerM

\* Number.toFixed(6) of a coordinate in degrees: whole millionths of a degree
toFixed6(t) == Div(t, 2)

\* parseFloat of a coordinate field, in ticks
parseDeg(v) == v * 2

\* Number.toFixed(1) of an angle in whole degrees
toFixed1(a) == a

\* the values updateFormValues writes for a rectangle with bounds b
formValues(b, angle) ==
  LET center == getCenter(b)
      southWest == getSouthWest(b)
      northEast == getNorthEast(b)
      northWest == getNorthWest(b)
      widthMeters == mapDistance(southWest, [lat |-> southWest.lat, lng |-> northEast.lng])
      heightMeters == mapDistance(northWest, southWest)
  IN [originLat |-> toFixed6(center.lat), originLon |-> toFixed6(center.lng),
      extentX |-> toFixed3Km(widthMeters), extentY |-> toFixed3Km(heightMeters),
      rotation |-> toFixed1(angle)]

\* getConfigurationDataForFile (apiClient.js), the rectangle's fields holding f
\* and the other fields g
getConfigurationDataForFile(f, g) ==
  [CALL_TYPE |-> "GENERATE_VELOCITY_MOD", MODEL_VERSION |-> g.modelVersion,
   ORIGIN_LAT |-> f.originLat, ORIGIN_LON |-> f.originLon,
   EXTENT_X |-> f.extentX, EXTENT_Y |-> f.extentY,
   EXTENT_ZMAX |-> g.extentZmax, EXTENT_ZMIN |-> g.extentZmin, ORIGIN_ROT |-> f.rotation,
   EXTENT_Z_SPACING |-> g.zSpacing, EXTENT_XY_SPACING |-> g.xySpacing,
   MIN_VS |-> g.minVs, TOPO_TYPE |-> g.topoType, OUTPUT_DIR |-> g.outputDir]

\* the record generateModelAndDownload posts (const formData)
collectFormData(f, g) ==
  [CALL_TYPE |-> "GENERATE_VELOCITY_MOD", MODEL_VERSION |-> g.modelVersion,
   ORIGIN_LAT |-> f.originLat, ORIGIN_LON |-> f.originLon, ORIGIN_ROT |-> f.rotation,
   EXTENT_X |-> f.extentX, EXTENT_Y |-> f.extentY,
   EXTENT_ZMAX |-> g.extentZmax, EXTENT_ZMIN |-> g.extentZmin,
   EXTENT_Z_SPACING |-> g.zSpacing, EXTENT_LATLON_SPACING |-> g.xySpacing,
   MIN_VS |-> g.minVs, TOPO_TYPE |-> g.topoType,
   OUTPUT_DIR |-> IF g.outputDir = "" THEN "/tmp/nzcvm_output" ELSE g.outputDir]

\* ------------------------------------------------------------------------
\* Grid size and run time (utils.js)
\* ------------------------------------------------------------------------
\* Lengths of the grid fields are whole metres.  The numbers that are not
\* finite are three values outside the range of the finite ones.
Infinity == 2147483647
NegInfinity == -2147483646

isNaN(x) == x = NaN

isInfinite(x) == x = Infinity \/ x = NegInfinity

\* a - b
minus(a, b) ==
  IF isNaN(a) \/ isNaN(b) THEN NaN
  ELSE IF isInfinite(a) THEN (IF a = b THEN NaN ELSE a)
  ELSE IF b = Infinity THEN NegInfinity
  ELSE IF b = NegInfinity THEN Infinity
  ELSE a - b

\* a * b
times(a, b) ==
  IF isNaN(a) \/ isNaN(b) THEN NaN
  ELSE IF isInfinite(a) \/ isInfinite(b)
       THEN IF a = 0 \/ b = 0 THEN NaN
            ELSE IF (a > 0) = (b > 0) THEN Infinity ELSE NegInfinity
  ELSE a * b

\* Math.trunc(a / b) for a divisor b > 0
truncQuotient(a, b) ==
  IF isNaN(a) \/ (isInfinite(a) /\ isInfinite(b)) THEN NaN
  ELSE IF isInfinite(a) THEN a
  ELSE IF isInfinite(b) THEN 0
  ELSE IF a >= 0 THEN a \div b ELSE -((-a) \div b)

\* Math.round(a / b) for a divisor b > 0: the nearest integer, a half goes up
roundQuotient(a, b) ==
  IF isNaN(a) \/ (isInfinite(a) /\ isInfinite(b)) THEN NaN
  ELSE IF isInfinite(a) THEN a
  ELSE IF isInfinite(b) THEN 0
  ELSE (2 * a + b) \div (2 * b)

\* Math.max(1, x)
max1(x) == IF isNaN(x) THEN NaN ELSE IF x < 1 THEN 1 ELSE x

invalidGrid == [nx |-> NaN, ny |-> NaN, nz |-> NaN, totalGridPoints |-> NaN]

\* calculateGridPoints with Math.trunc in the place of Math.round
calculateGridPointsTruncating(extentX, extentY, extentLatlonSpacing, extentZmax, extentZmin, extentZSpacing) ==
  IF \/ isNaN(extentX) \/ isNaN(extentY) \/ isNaN(extentLatlonSpacing)
     \/ isNaN(extentZmax) \/ isNaN(extentZmin) \/ isNaN(extentZSpacing)
     \/ extentLatlonSpacing <= 0 \/ extentZSpacing <= 0
  THEN invalidGrid
  ELSE LET nx == truncQuotient(extentX, extentLatlonSpacing)
           ny == truncQuotient(extentY, extentLatlonSpacing)
           nz == max1(truncQuotient(minus(extentZmax, extentZmin), extentZSpacing))
       IN [nx |-> nx, ny |-> ny, nz |-> nz, totalGridPoints |-> times(times(nx, ny), nz)]

\* calculateGridPoints (utils.js)
calculateGridPoints(extentX, extentY, extentLatlonSpacing, extentZmax, extentZmin, extentZSpacing) ==
  IF \/ isNaN(extentX) \/ isNaN(extentY) \/ isNaN(extentLatlonSpacing)
     \/ isNaN(extentZmax) \/ isNaN(extentZmin) \/ isNaN(extentZSpacing)
     \/ extentLatlonSpacing <= 0 \/ extentZSpacing <= 0
  THEN invalidGrid
  ELSE LET nx == roundQuotient(extentX, extentLatlonSpacing)
           ny == roundQuotient(extentY, extentLatlonSpacing)
           nz == max1(roundQuotient(minus(extentZmax, extentZmin), extentZSpacing))
       IN [nx |-> nx, ny |-> ny, nz |-> nz, totalGridPoints |-> times(times(nx, ny), nz)]

\* calculateApproxRunTime (utils.js), in milliseconds: 33 s and 26.014 microseconds
\* for each grid point
calculateApproxRunTime(totalGridPoints) ==
  IF isNaN(totalGridPoints) \/ totalGridPoints <= 0 THEN NaN
  ELSE IF totalGridPoints = Infinity THEN Infinity
  ELSE 33000 + (totalGridPoints \div 1000) * 26 + ((totalGridPoints \div 1000) * 14) \div 1000

\* the text of a span that holds no number
Placeholder == [text |-> "---"]

\* formatNumber of updateGridPointDisplay: num.toLocaleString(), or the placeholder
formatNumber(num) == IF isNaN(num) THEN Placeholder ELSE [number |-> num]

\* formatTime of updateGridPointDisplay: time.toFixed(1), in tenths of a second
formatTime(time) ==
  IF isNaN(time) THEN Placeholder
  ELSE [number |-> IF isInfinite(time) THEN time ELSE (time + 50) \div 100]

\* the five spans updateGridPointDisplay writes for what calculateGridPoints returned
gridSpans(gridData) ==
  [nx |-> formatNumber(gridData.nx), ny |-> formatNumber(gridData.ny),
   nz |-> formatNumber(gridData.nz), total |-> formatNumber(gridData.totalGridPoints),
   runtime |-> formatTime(calculateApproxRunTime(gridData.totalGridPoints))]

\* ------------------------------------------------------------------------
\* State
\* ------------------------------------------------------------------------
VARIABLES
  bounds,                 \* rectangle._originalBounds
  rot,                    \* rectangle._rotationAngle
  corners,                \* the polygon's points, rectangle.getLatLngs()[0]
  winRot,                 \* window.rotationAngle
  rotationAngle,          \* let rotationAngle
  isDragging, isResizing, isRotating,
  lastPos, rectangleCenter,
  resizeHandleType, resizeHandlePosition, initialResizeHandlePos, initialRectBounds,
  handles,                \* positions of the rotation handle and the eight resize handles
  mapDragging,            \* map.dragging enabled
  zoom,                   \* the map's zoom level
  form,                   \* origin-lat, origin-lon, extent-x, extent-y, rotation
  ev,                     \* what the last handler did
  frames,                 \* number of pointer-moves and form edits handled
  downs,                  \* number of pointer-downs handled
  startCorners,           \* the polygon's points at the last pointer-down
  startPos,               \* the pointer's position at the last pointer-down
  startRot,               \* the rectangle's rotation at the last pointer-down
  dropped,                \* a pointer-move of the session under way was rejected
  gridForm,               \* xy-spacing, extent-zmax, extent-zmin, z-spacing, min-vs,
                          \* model-version, topo-type, output-dir
  gridArgs,               \* the arguments of the last call of calculateGridPoints
  gridData,               \* what the last call of calculateGridPoints returned
  gridDisplay,            \* the five spans of #grid-calculations
  statusMessage,          \* #status-message: its text, its colour, its link
  countdownIntervalId,    \* let countdownIntervalId, 0 for null
  intervals,              \* the intervals scheduled with setInterval: the id of each and
                          \* the remainingSeconds its callback counts down
  requests,               \* the POSTs that have not been answered, and how far each got
  clicks,                 \* number of clicks on generate handled
  posts,                  \* number of POSTs sent
  formData,               \* the record of the last POST
  configData,             \* the record of the last configuration file downloaded
  conv,                   \* a conversion of a length to degrees and back: its arguments,
                          \* its two results and how far it got
  loads                   \* the calls of loadGeoJSONByModelVersion, each with its stage,
                          \* its retryCount, its fetches, its alerts and its last error

vars == <<bounds, rot, corners, winRot, rotationAngle, isDragging, isResizing, isRotating,
          lastPos, rectangleCenter, resizeHandleType, resizeHandlePosition,
          initialResizeHandlePos, initialRectBounds, handles, mapDragging, zoom, form,
          ev, frames, downs, startCorners, startPos, startRot, dropped,
          gridForm, gridArgs, gridData, gridDisplay, statusMessage, countdownIntervalId,
          intervals, requests, clicks, posts, formData, configData, conv, loads>>

\* the state of utils.js's conversions and of geojsonHandler.js
libVars == <<conv, loads>>

\* what a call of updateGridPointDisplay writes
gridCall == <<gridArgs, gridData, gridDisplay>>

\* the state of apiClient.js, and with it what no handler of the rectangle
\* editor touches
apiVars == <<statusMessage, countdownIntervalId, intervals, requests, clicks, posts, formData, configData,
             libVars>>

\* the values of the fields in the page as served
initialGridForm ==
  [xySpacing |-> 400, extentZmax |-> 45000, extentZmin |-> 0, zSpacing |-> 400, minVs |-> 500,
   modelVersion |-> "2p03_basins.geojson.gz", topoType |-> "SQUASHED_TAPERED",
   outputDir |-> "/tmp"]

\* #status-message before the first click
initialStatus == [text |-> "", color |-> "", link |-> FALSE]

\* the six fields updateGridPointDisplay and generateModelAndDownload parse
readGridFields(f, g) ==
  [extentX |-> f.extentX, extentY |-> f.extentY, extentLatlonSpacing |-> g.xySpacing,
   extentZmax |-> g.extentZmax, extentZmin |-> g.extentZmin, extentZSpacing |-> g.zSpacing]

\* the call calculateGridPoints(extentX, ..., extentZSpacing) with the arguments args
calculateGridPointsOf(args) ==
  calculateGridPoints(args.extentX, args.extentY, args.extentLatlonSpacing, args.extentZmax,
                      args.extentZmin, args.extentZSpacing)

\* updateGridPointDisplay (formHandler.js), the fields holding f and g
updateGridPointDisplay(f, g) ==
  /\ gridArgs' = readGridFields(f, g)
  /\ gridData' = calculateGridPointsOf(gridArgs')
  /\ gridDisplay' = gridSpans(gridData')

\* JavaScript null, where the other values are objects
Null == [null |-> TRUE]

\* JavaScript null, where the other values are strings
NullName == "null"

\* the handles updateRotationHandlePosition and updateResizeHandlesPosition create
handlePositions(b, angle, z) ==
  [rotation |-> rotationHandlePosition(b, angle, z), resize |-> resizeHandlePositions(b, angle)]

\* The state after construction (rotation 0), or after the rotation handle has
\* then been dragged a quarter turn and released.
InitialRotations == {0, 90}

InitPage ==
  /\ bounds = calculateBoundsFromOriginAndExtents(initialOriginLat, initialOriginLon,
                                                  parseKm(initialExtentX), parseKm(initialExtentY))
  /\ rot \in InitialRotations
  /\ corners = calculateCorners(bounds, rot)
  /\ winRot = rot
  /\ rotationAngle = rot
  /\ isDragging = FALSE /\ isResizing = FALSE /\ isRotating = FALSE
  /\ lastPos = Null
  /\ rectangleCenter = getCenter(bounds)
  /\ resizeHandleType = NullName /\ resizeHandlePosition = NullName
  /\ initialResizeHandlePos = Null /\ initialRectBounds = Null
  /\ zoom = 6
  /\ handles = handlePositions(bounds, rot, 6)
  /\ mapDragging = TRUE
  /\ form = [originLat |-> toFixed6(initialOriginLat), originLon |-> toFixed6(initialOriginLon),
             extentX |-> initialExtentX, extentY |-> initialExtentY, rotation |-> toFixed1(rot)]
  /\ ev = "init"
  /\ frames = 0
  /\ downs = 0
  /\ startCorners = corners
  /\ startPos = Null
  /\ startRot = rot
  /\ dropped = FALSE
  /\ gridForm = initialGridForm
  /\ statusMessage = initialStatus
  /\ countdownIntervalId = 0
  /\ intervals = {}
  /\ requests = {}
  /\ clicks = 0
  /\ posts = 0
  /\ formData = Null
  /\ configData = Null
  /\ loads = <<>>

\* DOMContentLoaded has called updateGridPointDisplay for the fields of the page
\* no conversion recorded
noConversion == [km |-> 0, centerLat |-> 0, lat |-> 0, lon |-> 0, latKm |-> 0, lonKm |-> 0,
                 step |-> "none"]

InitDisplay ==
  /\ InitPage
  /\ gridArgs = readGridFields(form, gridForm)
  /\ gridData = calculateGridPointsOf(gridArgs)
  /\ gridDisplay = gridSpans(gridData)

Init == InitDisplay /\ conv = noConversion

\* the arguments calculateGridPoints is called with, lengths in metres
GridArgs ==
  [extentX : {300000, 1000, 100, -1000, NaN, Infinity},
   extentY : {300000, 200, NaN},
   extentLatlonSpacing : {400, 0, -400, NaN, Infinity},
   extentZmax : {45000, 0, NaN, Infinity},
   extentZmin : {0, 1000, NegInfinity},
   extentZSpacing : {400, 0, NaN}]

\* updateGridPointDisplay has parsed six values and is about to call
\* calculateGridPoints with them; the spans still hold the placeholders of the page
InitGrid ==
  /\ InitPage
  /\ gridArgs \in GridArgs
  /\ gridData = invalidGrid
  /\ gridDisplay = gridSpans(invalidGrid)
  /\ conv = noConversion

\* ------------------------------------------------------------------------
\* applyRotation: rotationAngle = window.rotationAngle || 0;
\* rectangle.setRotation(rotationAngle); both handle updates
\* ------------------------------------------------------------------------
\* the angle applyRotation hands to setRotation
appliedAngle(local, global) == global

\* applyRotation on a rectangle with bounds b, when let rotationAngle is local,
\* window.rotationAngle is w and the map's zoom level is z
ApplyRotation(b, local, w, z) ==
  LET a == NormalizeAngle(appliedAngle(local, w))
  IN /\ rotationAngle' = appliedAngle(local, w)
     /\ rot' = a
     /\ winRot' = a
     /\ corners' = calculateCorners(b, a)
     /\ rectangleCenter' = IF rectangleCenter = Null THEN getCenter(b) ELSE rectangleCenter
     /\ handles' = handlePositions(b, a, z)

\* ------------------------------------------------------------------------
\* Pointer-down handlers
\* ------------------------------------------------------------------------
OnAxis(c, p) == p.lat = c.lat \/ p.lng = c.lng

\* a pointer-down on the rotation handle that leaves map panning enabled
RotationHandleMouseDownPanning ==
  /\ OnAxis(getCenter(bounds), handles.rotation)
  /\ downs < MaxDowns
  /\ downs' = downs + 1
  /\ isRotating' = TRUE
  /\ lastPos' = handles.rotation
  /\ rectangleCenter' = getCenter(bounds)
  /\ ev' = "down_rotate"
  /\ startCorners' = corners
  /\ startPos' = lastPos'
  /\ startRot' = rot
  /\ dropped' = FALSE
  /\ UNCHANGED <<bounds, rot, corners, winRot, rotationAngle, isDragging, isResizing,
                 resizeHandleType, resizeHandlePosition, initialResizeHandlePos,
                 initialRectBounds, handles, mapDragging, zoom, form, frames,
                 gridForm, gridCall, apiVars>>

\* rotationHandle.on('mousedown')
RotationHandleMouseDown ==
  /\ OnAxis(getCenter(bounds), handles.rotation)
  /\ downs < MaxDowns
  /\ downs' = downs + 1
  /\ isRotating' = TRUE
  /\ lastPos' = handles.rotation
  /\ rectangleCenter' = getCenter(bounds)
  /\ mapDragging' = FALSE
  /\ ev' = "down_rotate"
  /\ startCorners' = corners
  /\ startPos' = lastPos'
  /\ startRot' = rot
  /\ dropped' = FALSE
  /\ UNCHANGED <<bounds, rot, corners, winRot, rotationAngle, isDragging, isResizing,
                 resizeHandleType, resizeHandlePosition, initialResizeHandlePos,
                 initialRectBounds, handles, zoom, form, frames,
                 gridForm, gridCall, apiVars>>

\* startResize(e, handleType, handlePosition), e.latlng the handle's position
startResize(handleType, handlePosition) ==
  /\ isRotating => OnAxis(getCenter(bounds), handles.resize[handlePosition])
  /\ downs < MaxDowns
  /\ downs' = downs + 1
  /\ isResizing' = TRUE
  /\ lastPos' = handles.resize[handlePosition]
  /\ mapDragging' = FALSE
  /\ resizeHandleType' = handleType
  /\ resizeHandlePosition' = handlePosition
  /\ initialResizeHandlePos' = handles.resize[handlePosition]
  /\ initialRectBounds' = bounds
  /\ rectangleCenter' = getCenter(bounds)
  /\ ev' = "down_resize"
  /\ startCorners' = corners
  /\ startPos' = lastPos'
  /\ startRot' = rot
  /\ dropped' = FALSE
  /\ UNCHANGED <<bounds, rot, corners, winRot, rotationAngle, isDragging, isRotating,
                 handles, zoom, form, frames,
                 gridForm, gridCall, apiVars>>

CornerHandleMouseDown == \E position \in CornerPositions : startResize("corner", position)

SideHandleMouseDown == \E position \in SidePositions : startResize("side", position)

\* a pointer-down on the rectangle that already moves the stored bounds
RectangleMouseDownMoving ==
  /\ downs < MaxDowns
  /\ downs' = downs + 1
  /\ rectangleCenter' = getCenter(bounds)
  /\ isDragging' = TRUE
  /\ lastPos' = getCenter(bounds)
  /\ mapDragging' = FALSE
  /\ ev' = "down_rectangle"
  /\ startCorners' = corners
  /\ startPos' = lastPos'
  /\ startRot' = rot
  /\ dropped' = FALSE
  /\ bounds' = latLngBounds([lat |-> bounds.s + 2, lng |-> bounds.w + 2],
                            [lat |-> bounds.n + 2, lng |-> bounds.e + 2])
  /\ UNCHANGED <<rot, corners, winRot, rotationAngle, isResizing, isRotating,
                 resizeHandleType, resizeHandlePosition, initialResizeHandlePos,
                 initialRectBounds, handles, zoom, form, frames,
                 gridForm, gridCall, apiVars>>

\* rectangle.on('mousedown'), the pointer at the rectangle's centre
RectangleMouseDown ==
  /\ downs < MaxDowns
  /\ downs' = downs + 1
  /\ rectangleCenter' = getCenter(bounds)
  /\ isDragging' = TRUE
  /\ lastPos' = getCenter(bounds)
  /\ mapDragging' = FALSE
  /\ ev' = "down_rectangle"
  /\ startCorners' = corners
  /\ startPos' = lastPos'
  /\ startRot' = rot
  /\ dropped' = FALSE
  /\ UNCHANGED <<bounds, rot, corners, winRot, rotationAngle, isResizing, isRotating,
                 resizeHandleType, resizeHandlePosition, initialResizeHandlePos,
                 initialRectBounds, handles, zoom, form, frames,
                 gridForm, gridCall, apiVars>>

\* a pointer-up that ends the session but keeps the pointer position and the
\* resize snapshot
MouseUpKeepingSnapshot ==
  /\ isDragging \/ isResizing \/ isRotating
  /\ isDragging' = FALSE /\ isResizing' = FALSE /\ isRotating' = FALSE
  /\ mapDragging' = TRUE
  /\ form' = formValues(bounds, rotationAngle)
  /\ ev' = "up"
  /\ dropped' = FALSE
  /\ UNCHANGED <<bounds, rot, corners, winRot, rotationAngle, rectangleCenter, handles,
                 zoom, frames, downs, startCorners, startPos, startRot, lastPos,
                 resizeHandleType, resizeHandlePosition, initialResizeHandlePos,
                 initialRectBounds, gridForm, apiVars>>
  /\ updateGridPointDisplay(form', gridForm)

\* map.on('mouseup')
MouseUp ==
  IF ~(isDragging \/ isResizing \/ isRotating)
  THEN /\ ev' = "up_ignored"
       /\ UNCHANGED <<bounds, rot, corners, winRot, rotationAngle, isDragging, isResizing,
                      isRotating, lastPos, rectangleCenter, resizeHandleType,
                      resizeHandlePosition, initialResizeHandlePos, initialRectBounds,
                      handles, mapDragging, zoom, form, frames, downs, startCorners,
                      startPos, startRot, dropped, gridForm, gridCall, apiVars>>
  ELSE /\ isDragging' = FALSE /\ isResizing' = FALSE /\ isRotating' = FALSE
       /\ lastPos' = Null
       /\ resizeHandleType' = NullName /\ resizeHandlePosition' = NullName
       /\ initialResizeHandlePos' = Null /\ initialRectBounds' = Null
       /\ mapDragging' = TRUE
       /\ form' = formValues(bounds, rotationAngle)
       /\ ev' = "up"
       /\ dropped' = FALSE
       /\ updateGridPointDisplay(form', gridForm)
       /\ UNCHANGED <<bounds, rot, corners, winRot, rotationAngle, rectangleCenter,
                      handles, zoom, frames, downs, startCorners, startPos, startRot,
                      gridForm, apiVars>>

\* map.on('zoomend moveend dragend zoom move viewreset') and map.on('redraw')
Zooms == {6}

\* a zoom that also turns the rectangle back to rotation 0
ViewportAtUnrotated(z) ==
  /\ zoom' = z
  /\ ApplyRotation(bounds, 0, 0, z)
  /\ ev' = "viewport"
  /\ UNCHANGED <<bounds, isDragging, isResizing, isRotating, lastPos, resizeHandleType,
                 resizeHandlePosition, initialResizeHandlePos, initialRectBounds,
                 mapDragging, form, frames, downs, startCorners, startPos, startRot, dropped,
                 gridForm, gridCall, apiVars>>

\* the handler, when the event leaves the map at zoom level z
ViewportAt(z) ==
  /\ zoom' = z
  /\ ApplyRotation(bounds, rotationAngle, winRot, z)
  /\ ev' = IF /\ corners' = corners /\ handles' = handles /\ rotationAngle' = rotationAngle
              /\ zoom' = zoom
           THEN ev
           ELSE "viewport"
  /\ UNCHANGED <<bounds, isDragging, isResizing, isRotating, lastPos, resizeHandleType,
                 resizeHandlePosition, initialResizeHandlePos, initialRectBounds,
                 mapDragging, form, frames, downs, startCorners, startPos, startRot, dropped,
                 gridForm, gridCall, apiVars>>

ViewportEvent == \E z \in Zooms : ViewportAt(z)

\* the zoom levels of a zoom event
ZoomLevels == {6, 15}

ZoomEvent == \E z \in ZoomLevels : ViewportAt(z)

\* ------------------------------------------------------------------------
\* handleCornerResize(currentLatLng)
\* ------------------------------------------------------------------------
\* indices into [SW, SE, NE, NW] of the corner that stays, the corner that is
\* dragged and the two others, for each corner handle
cornerRoles(position) ==
  CASE position = "topLeft" -> [fixed |-> 2, moving |-> 4, other1 |-> 1, other2 |-> 3]
    [] position = "topRight" -> [fixed |-> 1, moving |-> 3, other1 |-> 4, other2 |-> 2]
    [] position = "bottomLeft" -> [fixed |-> 3, moving |-> 1, other1 |-> 4, other2 |-> 2]
    [] position = "bottomRight" -> [fixed |-> 4, moving |-> 2, other1 |-> 1, other2 |-> 3]

\* [SW, SE, NE, NW] of an unrotated box
boxCorners(b) == <<getSouthWest(b), getSouthEast(b), getNorthEast(b), getNorthWest(b)>>

\* the minimum size test on new bounds, in degrees
tooSmall(b) == Abs(b.e - b.w) < minSize \/ Abs(b.n - b.s) < minSize

\* the bounds a corner resize stores next to the corners it has drawn
boundsOfCorners(newCorners) == latLngBounds4(newCorners)

\* a corner resize that falls back to the rectangle of the pointer-down when the
\* new bounds are too small
cornerResizeUnrotatedReverting(position, snapshot, dx, dy, angle, curBounds, curCorners) ==
  LET r == cornerRoles(position)
      orig == boxCorners(snapshot)
      fixedCorner == orig[r.fixed]
      movingCornerPoint == latLngToContainerPoint(orig[r.moving])
      newMovingCorner == containerPointToLatLng([x |-> movingCornerPoint.x + dx,
                                                 y |-> movingCornerPoint.y + dy])
      newBounds == latLngBounds(fixedCorner, newMovingCorner)
  IN IF tooSmall(newBounds)
     THEN [ok |-> FALSE, bounds |-> snapshot, corners |-> calculateCorners(snapshot, angle)]
     ELSE [ok |-> TRUE, bounds |-> newBounds, corners |-> calculateCorners(newBounds, angle)]

\* the unrotated branch: new bounds from the fixed corner of the snapshot and
\* the moved corner
cornerResizeUnrotated(position, snapshot, dx, dy, angle, curBounds, curCorners) ==
  LET r == cornerRoles(position)
      orig == boxCorners(snapshot)
      fixedCorner == orig[r.fixed]
      movingCornerPoint == latLngToContainerPoint(orig[r.moving])
      newMovingCorner == containerPointToLatLng([x |-> movingCornerPoint.x + dx,
                                                 y |-> movingCornerPoint.y + dy])
      newBounds == latLngBounds(fixedCorner, newMovingCorner)
  IN IF tooSmall(newBounds)
     THEN [ok |-> FALSE, bounds |-> curBounds, corners |-> curCorners]
     ELSE [ok |-> TRUE, bounds |-> newBounds, corners |-> calculateCorners(newBounds, angle)]

\* the rotated branch without its test of the two axis lengths
cornerResizeRotatedUnguarded(position, dx, dy, z, curBounds, curCorners) ==
  LET r == cornerRoles(position)
      fixedCorner == curCorners[r.fixed]
      fixedPoint == latLngToContainerPoint(fixedCorner)
      movingPoint == latLngToContainerPoint(curCorners[r.moving])
      newMovingPoint == [x |-> movingPoint.x + dx, y |-> movingPoint.y + dy]
      otherPoint1 == latLngToContainerPoint(curCorners[r.other1])
      otherPoint2 == latLngToContainerPoint(curCorners[r.other2])
      axis1X == otherPoint1.x - fixedPoint.x
      axis1Y == otherPoint1.y - fixedPoint.y
      axis2X == otherPoint2.x - fixedPoint.x
      axis2Y == otherPoint2.y - fixedPoint.y
      axis1Length == Hypot(axis1X, axis1Y)
      axis2Length == Hypot(axis2X, axis2Y)
      axis1UnitX == Div(axis1X, axis1Length)
      axis1UnitY == Div(axis1Y, axis1Length)
      axis2UnitX == Div(axis2X, axis2Length)
      axis2UnitY == Div(axis2Y, axis2Length)
      deltaX == newMovingPoint.x - fixedPoint.x
      deltaY == newMovingPoint.y - fixedPoint.y
      proj1 == deltaX * axis1UnitX + deltaY * axis1UnitY
      proj2 == deltaX * axis2UnitX + deltaY * axis2UnitY
  IN IF Abs(proj1) < minSizePixels * PuPerPx(z) \/ Abs(proj2) < minSizePixels * PuPerPx(z)
     THEN [ok |-> FALSE, bounds |-> curBounds, corners |-> curCorners]
     ELSE
       LET newOtherCorner1 == containerPointToLatLng(
               [x |-> fixedPoint.x + proj1 * axis1UnitX, y |-> fixedPoint.y + proj1 * axis1UnitY])
           newOtherCorner2 == containerPointToLatLng(
               [x |-> fixedPoint.x + proj2 * axis2UnitX, y |-> fixedPoint.y + proj2 * axis2UnitY])
           newOppositeCorner == containerPointToLatLng(
               [x |-> fixedPoint.x + proj1 * axis1UnitX + proj2 * axis2UnitX,
                y |-> fixedPoint.y + proj1 * axis1UnitY + proj2 * axis2UnitY])
           newCorners == [i \in 1..4 |->
               IF i = r.fixed THEN fixedCorner
               ELSE IF i = r.other1 THEN newOtherCorner1
               ELSE IF i = r.other2 THEN newOtherCorner2
               ELSE newOppositeCorner]
       IN [ok |-> TRUE, bounds |-> boundsOfCorners(newCorners), corners |-> newCorners]

\* the unit vector of an axis that is not along a screen axis, in 1/UnitDen,
\* from the axis in steps of HypotUnit
UnitDen == 1000

axisUnit(axisX, axisY) ==
  LET cx == Div(axisX, HypotUnit)
      cy == Div(axisY, HypotUnit)
      len == Sqrt(cx * cx + cy * cy)
  IN [x |-> Div(cx * UnitDen, len), y |-> Div(cy * UnitDen, len)]

\* deltaX * unitX + deltaY * unitY, in steps of HypotUnit
projectOnAxis(unit, deltaX, deltaY) ==
  Div(Div(deltaX, HypotUnit) * unit.x + Div(deltaY, HypotUnit) * unit.y, UnitDen)

\* (proj * unitX, proj * unitY), in pu
alongAxis(unit, proj) ==
  [x |-> HypotUnit * Div(proj * unit.x, UnitDen), y |-> HypotUnit * Div(proj * unit.y, UnitDen)]

\* the rotated branch on a polygon whose sides are not along the screen axes:
\* the new corners from the corner that stays and the two projected sides
obliqueCorners(r, fixedCorner, fixedPoint, along1, along2) ==
  [i \in 1..4 |->
     IF i = r.fixed THEN fixedCorner
     ELSE IF i = r.other1
     THEN containerPointToLatLng([x |-> fixedPoint.x + along1.x, y |-> fixedPoint.y + along1.y])
     ELSE IF i = r.other2
     THEN containerPointToLatLng([x |-> fixedPoint.x + along2.x, y |-> fixedPoint.y + along2.y])
     ELSE containerPointToLatLng([x |-> fixedPoint.x + along1.x + along2.x,
                                  y |-> fixedPoint.y + along1.y + along2.y])]

obliqueResult(newCorners) ==
  [ok |-> TRUE, bounds |-> boundsOfCorners(newCorners), corners |-> newCorners]

obliqueProjected(r, fixedCorner, fixedPoint, axis1Unit, axis2Unit, proj1, proj2, z, rejected) ==
  IF Abs(proj1) * HypotUnit < minSizePixels * PuPerPx(z)
     \/ Abs(proj2) * HypotUnit < minSizePixels * PuPerPx(z)
  THEN rejected
  ELSE obliqueResult(obliqueCorners(r, fixedCorner, fixedPoint,
                                    alongAxis(axis1Unit, proj1), alongAxis(axis2Unit, proj2)))

obliqueAlong(r, fixedCorner, fixedPoint, axis1Unit, axis2Unit, deltaX, deltaY, z, rejected) ==
  obliqueProjected(r, fixedCorner, fixedPoint, axis1Unit, axis2Unit,
                   projectOnAxis(axis1Unit, deltaX, deltaY), projectOnAxis(axis2Unit, deltaX, deltaY),
                   z, rejected)

obliqueFrom(r, fixedCorner, fixedPoint, movingPoint, otherPoint1, otherPoint2, dx, dy, z, rejected) ==
  IF Hypot(otherPoint1.x - fixedPoint.x, otherPoint1.y - fixedPoint.y) < PuPerPx(z)
     \/ Hypot(otherPoint2.x - fixedPoint.x, otherPoint2.y - fixedPoint.y) < PuPerPx(z)
  THEN rejected
  ELSE obliqueAlong(r, fixedCorner, fixedPoint,
                    axisUnit(otherPoint1.x - fixedPoint.x, otherPoint1.y - fixedPoint.y),
                    axisUnit(otherPoint2.x - fixedPoint.x, otherPoint2.y - fixedPoint.y),
                    movingPoint.x + dx - fixedPoint.x, movingPoint.y + dy - fixedPoint.y, z, rejected)

cornerResizeOblique(position, dx, dy, z, curBounds, curCorners) ==
  obliqueFrom(cornerRoles(position), curCorners[cornerRoles(position).fixed],
              latLngToContainerPoint(curCorners[cornerRoles(position).fixed]),
              latLngToContainerPoint(curCorners[cornerRoles(position).moving]),
              latLngToContainerPoint(curCorners[cornerRoles(position).other1]),
              latLngToContainerPoint(curCorners[cornerRoles(position).other2]),
              dx, dy, z, [ok |-> FALSE, bounds |-> curBounds, corners |-> curCorners])

\* the sides that meet at the corner that stays run along the screen axes
alongScreenAxes(position, curCorners) ==
  LET r == cornerRoles(position)
      fixedCorner == curCorners[r.fixed]
  IN /\ (curCorners[r.other1].lat = fixedCorner.lat \/ curCorners[r.other1].lng = fixedCorner.lng)
     /\ (curCorners[r.other2].lat = fixedCorner.lat \/ curCorners[r.other2].lng = fixedCorner.lng)

\* the rotated branch on a polygon whose sides are along the screen axes
cornerResizeAlongAxes(position, dx, dy, z, curBounds, curCorners) ==
  LET r == cornerRoles(position)
      fixedCorner == curCorners[r.fixed]
      fixedPoint == latLngToContainerPoint(fixedCorner)
      movingPoint == latLngToContainerPoint(curCorners[r.moving])
      newMovingPoint == [x |-> movingPoint.x + dx, y |-> movingPoint.y + dy]
      otherPoint1 == latLngToContainerPoint(curCorners[r.other1])
      otherPoint2 == latLngToContainerPoint(curCorners[r.other2])
      axis1X == otherPoint1.x - fixedPoint.x
      axis1Y == otherPoint1.y - fixedPoint.y
      axis2X == otherPoint2.x - fixedPoint.x
      axis2Y == otherPoint2.y - fixedPoint.y
      axis1Length == Hypot(axis1X, axis1Y)
      axis2Length == Hypot(axis2X, axis2Y)
      rejected == [ok |-> FALSE, bounds |-> curBounds, corners |-> curCorners]
  IN IF axis1Length < PuPerPx(z) \/ axis2Length < PuPerPx(z)
     THEN rejected
     ELSE
       LET axis1UnitX == Div(axis1X, axis1Length)
           axis1UnitY == Div(axis1Y, axis1Length)
           axis2UnitX == Div(axis2X, axis2Length)
           axis2UnitY == Div(axis2Y, axis2Length)
           deltaX == newMovingPoint.x - fixedPoint.x
           deltaY == newMovingPoint.y - fixedPoint.y
           proj1 == deltaX * axis1UnitX + deltaY * axis1UnitY
           proj2 == deltaX * axis2UnitX + deltaY * axis2UnitY
       IN IF Abs(proj1) < minSizePixels * PuPerPx(z) \/ Abs(proj2) < minSizePixels * PuPerPx(z)
          THEN rejected
          ELSE
            LET newOtherCorner1 == containerPointToLatLng(
                    [x |-> fixedPoint.x + proj1 * axis1UnitX, y |-> fixedPoint.y + proj1 * axis1UnitY])
                newOtherCorner2 == containerPointToLatLng(
                    [x |-> fixedPoint.x + proj2 * axis2UnitX, y |-> fixedPoint.y + proj2 * axis2UnitY])
                newOppositeCorner == containerPointToLatLng(
                    [x |-> fixedPoint.x + proj1 * axis1UnitX + proj2 * axis2UnitX,
                     y |-> fixedPoint.y + proj1 * axis1UnitY + proj2 * axis2UnitY])
                newCorners == [i \in 1..4 |->
                    IF i = r.fixed THEN fixedCorner
                    ELSE IF i = r.other1 THEN newOtherCorner1
                    ELSE IF i = r.other2 THEN newOtherCorner2
                    ELSE newOppositeCorner]
            IN [ok |-> TRUE, bounds |-> boundsOfCorners(newCorners), corners |-> newCorners]

\* the rotated branch: new corners from the polygon's current corners
cornerResizeRotated(position, dx, dy, z, curBounds, curCorners) ==
  IF alongScreenAxes(position, curCorners)
  THEN cornerResizeAlongAxes(position, dx, dy, z, curBounds, curCorners)
  ELSE cornerResizeOblique(position, dx, dy, z, curBounds, curCorners)

\* whether handleCornerResize takes the unrotated branch: |angle| < 0.01
isUnrotated(w) == Abs(w) < 1

\* ------------------------------------------------------------------------
\* handleSideResize(currentLatLng)
\* ------------------------------------------------------------------------
\* the side vector of the dragged side, from the rotated corners
sideVector(position, c) ==
  CASE position = "top" -> [x |-> c.ne.x - c.nw.x, y |-> c.ne.y - c.nw.y]
    [] position = "bottom" -> [x |-> c.se.x - c.sw.x, y |-> c.se.y - c.sw.y]
    [] position = "left" -> [x |-> c.nw.x - c.sw.x, y |-> c.nw.y - c.sw.y]
    [] position = "right" -> [x |-> c.ne.x - c.se.x, y |-> c.ne.y - c.se.y]

\* the corners of the dragged side
movedCorners(position) ==
  CASE position = "top" -> {"ne", "nw"}
    [] position = "bottom" -> {"sw", "se"}
    [] position = "left" -> {"sw", "nw"}
    [] position = "right" -> {"se", "ne"}

\* the movement of the dragged side: the pointer movement projected on the
\* unit normal of the side
\* the unit normal of a side
sideUnitNormal(perpX, perpY, perpLength) ==
  [x |-> IF perpLength > 0 THEN Div(perpX, perpLength) ELSE perpX,
   y |-> IF perpLength > 0 THEN Div(perpY, perpLength) ELSE perpY]

\* the pointer movement projected on the unit normal
projectOnNormal(unit, projectedDistance) ==
  [x |-> projectedDistance * unit.x, y |-> projectedDistance * unit.y]

sideMoveAlong(unit, dx, dy) == projectOnNormal(unit, dx * unit.x + dy * unit.y)

sideMoveVector(side, dx, dy) ==
  sideMoveAlong(sideUnitNormal(-side.y, side.x, Hypot(-side.y, side.x)), dx, dy)

\* the snapshot's corners rotated about its centre, on the screen
sideRotatedCorners(snapshot, centerPoint, angle) ==
  [sw |-> rotatePoint(latLngToContainerPoint(getSouthWest(snapshot)), centerPoint, angle),
   se |-> rotatePoint(latLngToContainerPoint(getSouthEast(snapshot)), centerPoint, angle),
   ne |-> rotatePoint(latLngToContainerPoint(getNorthEast(snapshot)), centerPoint, angle),
   nw |-> rotatePoint(latLngToContainerPoint(getNorthWest(snapshot)), centerPoint, angle)]

\* the corners after the dragged side has moved by moveVector
sideNewCorners(position, rotatedCorners, moveVector) ==
  [k \in {"sw", "se", "ne", "nw"} |->
     IF k \in movedCorners(position)
     THEN [x |-> rotatedCorners[k].x + moveVector.x, y |-> rotatedCorners[k].y + moveVector.y]
     ELSE rotatedCorners[k]]

\* the centre of the new corners
sideNewCenterPoint(newCorners) ==
  [x |-> Div(newCorners.sw.x + newCorners.se.x + newCorners.ne.x + newCorners.nw.x, 4),
   y |-> Div(newCorners.sw.y + newCorners.se.y + newCorners.ne.y + newCorners.nw.y, 4)]

\* the bounds of the new corners rotated back about their centre
sideNewBounds(newCorners, newCenterPoint, angle) ==
  latLngBounds(containerPointToLatLng(unrotatePoint(newCorners.sw, newCenterPoint, angle)),
               containerPointToLatLng(unrotatePoint(newCorners.ne, newCenterPoint, angle)))

\* the minimum size test of a side resize
sideResult(newBounds, curBounds) ==
  IF tooSmall(newBounds)
  THEN [ok |-> FALSE, bounds |-> curBounds]
  ELSE [ok |-> TRUE, bounds |-> newBounds]

sideResizeTo(newCorners, angle, curBounds) ==
  sideResult(sideNewBounds(newCorners, sideNewCenterPoint(newCorners), angle), curBounds)

sideResizeFrom(position, rotatedCorners, dx, dy, angle, curBounds) ==
  sideResizeTo(sideNewCorners(position, rotatedCorners,
                              sideMoveVector(sideVector(position, rotatedCorners), dx, dy)),
               angle, curBounds)

handleSideResize(position, snapshot, dx, dy, angle, curBounds) ==
  sideResizeFrom(position,
                 sideRotatedCorners(snapshot, latLngToContainerPoint(getCenter(snapshot)), angle),
                 dx, dy, angle, curBounds)

\* ------------------------------------------------------------------------
\* map.on('mousemove')
\* ------------------------------------------------------------------------
\* the bounds the move branch hands to setBounds
movedBounds(b, latDiff, lonDiff) ==
  latLngBounds([lat |-> b.s + latDiff, lng |-> b.w + lonDiff],
               [lat |-> b.n + latDiff, lng |-> b.e + lonDiff])

\* the resize branch after handleCornerResize has computed res: it writes the
\* bounds, the polygon and the form, and leaves the handles where they are
cornerResizeBranch(res) ==
  /\ bounds' = res.bounds
  /\ corners' = res.corners
  /\ form' = IF res.ok THEN formValues(res.bounds, rotationAngle) ELSE form
  /\ ev' = IF res.ok THEN "resize_accepted" ELSE "resize_rejected"
  /\ UNCHANGED <<rot, winRot, rotationAngle, rectangleCenter, handles>>

\* the resize branch after handleSideResize has computed res
sideResizeBranch(res) ==
  IF res.ok
  THEN /\ bounds' = res.bounds
       /\ ApplyRotation(res.bounds, rotationAngle, winRot, zoom)
       /\ form' = formValues(res.bounds, rotationAngle')
       /\ ev' = "resize_accepted"
  ELSE /\ ev' = "resize_rejected"
       /\ UNCHANGED <<bounds, rot, corners, winRot, rotationAngle,
                      rectangleCenter, handles, form>>

\* the resize branch of the handler, the pointer being dx, dy away from the
\* position of the pointer-down
resizeBranch(dx, dy) ==
  IF resizeHandleType = "corner"
  THEN cornerResizeBranch(IF isUnrotated(winRot)
                         THEN cornerResizeUnrotated(resizeHandlePosition, initialRectBounds,
                                                    dx, dy, rot, bounds, corners)
                         ELSE cornerResizeRotated(resizeHandlePosition, dx, dy, zoom,
                                                  bounds, corners))
  ELSE sideResizeBranch(handleSideResize(resizeHandlePosition, initialRectBounds,
                                        dx, dy, winRot, bounds))

MouseMove(currentLatLng) ==
  IF ~isDragging /\ ~isResizing /\ ~isRotating
  THEN UNCHANGED vars
  ELSE
    /\ frames < MaxFrames
    /\ frames' = frames + 1
    /\ lastPos' = currentLatLng
    /\ UNCHANGED <<isDragging, isResizing, isRotating, resizeHandleType, resizeHandlePosition,
                   initialResizeHandlePos, initialRectBounds, mapDragging, zoom, downs,
                   startCorners, startPos, startRot, gridForm, apiVars>>
    /\ IF isRotating /\ rectangleCenter # Null /\ lastPos # Null
       THEN LET angleDelta == calculateAngle(rectangleCenter, lastPos, currentLatLng)
                newAngle == NormalizeAngle(rotationAngle + angleDelta)
            IN /\ ApplyRotation(bounds, newAngle, newAngle, zoom)
               /\ ev' = "rotate"
               /\ UNCHANGED <<bounds, form>>
       ELSE IF isDragging
       THEN LET newBounds == movedBounds(bounds, currentLatLng.lat - lastPos.lat,
                                         currentLatLng.lng - lastPos.lng)
            IN /\ bounds' = newBounds
               /\ ApplyRotation(newBounds, rotationAngle, winRot, zoom)
               /\ form' = formValues(newBounds, rotationAngle')
               /\ ev' = "move"
       ELSE IF isResizing /\ rectangleCenter # Null /\ initialResizeHandlePos # Null
               /\ initialRectBounds # Null
       THEN resizeBranch(latLngToContainerPoint(currentLatLng).x
                          - latLngToContainerPoint(initialResizeHandlePos).x,
                        latLngToContainerPoint(currentLatLng).y
                          - latLngToContainerPoint(initialResizeHandlePos).y)
       ELSE /\ ev' = "move_none"
            /\ UNCHANGED <<bounds, rot, corners, winRot, rotationAngle, rectangleCenter,
                           handles, form>>
    /\ dropped' = (dropped \/ ev' = "resize_rejected")
    /\ IF ev' \in {"move", "resize_accepted"}
       THEN updateGridPointDisplay(form', gridForm)
       ELSE UNCHANGED gridCall

\* ------------------------------------------------------------------------
\* Pointer positions explored
\* ------------------------------------------------------------------------
\* 0.36 degree
Step == 720000

\* 18.72 degrees, from the band of the initial rectangle to the band around 60 S
BandJump == 52 * Step

Shift(p, dlat, dlng) == [lat |-> p.lat + dlat, lng |-> p.lng + dlng]

AxisPoints(c) == {Shift(c, Step, 0), Shift(c, -Step, 0), Shift(c, 0, Step), Shift(c, 0, -Step)}

\* the rectangle stays away from the borders of the latitude bands
LatOK(p) == -62 * TicksPerDeg <= p.lat /\ p.lat <= -39 * TicksPerDeg

\* a resize stays within the latitude band of the rectangle
NearCentre(p) == Abs(p.lat - getCenter(bounds).lat) <= 5 * TicksPerDeg

PointerTargets ==
  IF lastPos = Null THEN {getCenter(bounds)}
  ELSE IF isRotating THEN {p \in AxisPoints(rectangleCenter) : OnAxis(rectangleCenter, lastPos)}
  ELSE IF isDragging
  THEN {p \in {Shift(lastPos, Step, Step), Shift(lastPos, BandJump, 0),
               Shift(lastPos, -BandJump, 0)} : LatOK(p)}
  ELSE {p \in {Shift(lastPos, Step, Step), corners[1]} : NearCentre(p)}

PointerMove == \E p \in PointerTargets : MouseMove(p)

\* the pointer of a corner resize carried across the corner that stays, to the
\* mirror image of the position of the pointer-down
AcrossFixedCorner ==
  LET fixedCorner == corners[cornerRoles(resizeHandlePosition).fixed]
  IN [lat |-> 2 * fixedCorner.lat - initialResizeHandlePos.lat,
      lng |-> 2 * fixedCorner.lng - initialResizeHandlePos.lng]

\* the pointer of a resize session staying where it is, or going back to where
\* the button went down
RepeatTargets ==
  IF isResizing /\ lastPos # Null /\ initialResizeHandlePos # Null
  THEN {lastPos, initialResizeHandlePos}
  ELSE {}

PointerMoveAgain == \E p \in PointerTargets \cup RepeatTargets : MouseMove(p)

\* 0.0009 degree
NearStep == 1800

\* the pointer of a corner resize carried to 0.0009 degree north-east of the
\* position at which the dragged corner would meet the corner that stays
NearFixedCorner ==
  LET r == cornerRoles(resizeHandlePosition)
  IN Shift(initialResizeHandlePos,
           corners[r.fixed].lat - corners[r.moving].lat + NearStep,
           corners[r.fixed].lng - corners[r.moving].lng + NearStep)

NearTargets ==
  IF isResizing /\ resizeHandleType = "corner" /\ initialResizeHandlePos # Null
  THEN {NearFixedCorner}
  ELSE {}

PointerMoveNear == \E p \in PointerTargets \cup NearTargets : MouseMove(p)

AcrossTargets ==
  IF isResizing /\ resizeHandleType = "corner" /\ initialResizeHandlePos # Null
  THEN {AcrossFixedCorner}
  ELSE {}

PointerMoveAcross == \E p \in PointerTargets \cup AcrossTargets : MouseMove(p)

\* ------------------------------------------------------------------------
\* updateRectangleFromForm (formHandler.js), after an edit of one field
\* ------------------------------------------------------------------------
FormFields == {"originLat", "originLon", "extentX", "extentY", "rotation"}

TypedValues(field) ==
  CASE field = "originLat" -> {-60000000, NaN}
    [] field = "originLon" -> {toFixed6(initialOriginLon) + 360000}
    [] field = "extentX" -> {150000, 0}
    [] field = "extentY" -> {150000, NaN}
    [] field = "rotation" -> {-90, NaN}

\* the test of updateRectangleFromForm without its two comparisons with 0
formIsValidAllowingZero(f) ==
  /\ f.originLat # NaN /\ f.originLon # NaN /\ f.extentX # NaN /\ f.extentY # NaN
  /\ f.rotation # NaN

formIsValid(f) ==
  /\ f.originLat # NaN /\ f.originLon # NaN /\ f.extentX # NaN /\ f.extentY # NaN
  /\ f.extentX > 0 /\ f.extentY > 0
  /\ f.rotation # NaN

updateRectangleFromForm(f) ==
  IF formIsValid(f)
  THEN LET newBounds == calculateBoundsFromOriginAndExtents(parseDeg(f.originLat), parseDeg(f.originLon),
                                                            parseKm(f.extentX), parseKm(f.extentY))
       IN /\ bounds' = newBounds
          /\ ApplyRotation(newBounds, NormalizeAngle(f.rotation), winRot, zoom)
          /\ ev' = "form_valid"
  ELSE /\ ev' = "form_invalid"
       /\ UNCHANGED <<bounds, rot, corners, winRot, rotationAngle, rectangleCenter, handles>>

\* one field of the form is edited to v while no pointer button is held
FormEditTyping(field, v) ==
    /\ ~isDragging /\ ~isResizing /\ ~isRotating
    /\ frames < MaxFrames
    /\ frames' = frames + 1
    /\ form' = [form EXCEPT ![field] = v]
    /\ updateRectangleFromForm(form')
    /\ UNCHANGED <<isDragging, isResizing, isRotating, lastPos, resizeHandleType,
                   resizeHandlePosition, initialResizeHandlePos, initialRectBounds,
                   mapDragging, zoom, downs, startCorners, startPos, startRot, dropped,
                   gridForm, apiVars>>
    /\ IF field \in {"extentX", "extentY"} \/ formIsValid(form')
       THEN updateGridPointDisplay(form', gridForm)
       ELSE UNCHANGED gridCall

FormEdit == \E field \in FormFields : \E v \in TypedValues(field) : FormEditTyping(field, v)

\* the south pole and five degrees beyond it typed into origin-lat
PolarLatitudes == {-90000000, -95000000}

\* an extent X of one metre, narrower than a pixel at both zoom levels
TinyExtents == {1}

TinyFormEdit == \E v \in TinyExtents : FormEditTyping("extentX", v)

PolarFormEdit == \E v \in PolarLatitudes : FormEditTyping("originLat", v)

\* rectangle.setRotation(angle), called directly
RotationArgs == {90, -90, -450, 630, 180, -180}

setRotation(angle) ==
  /\ frames < MaxFrames
  /\ frames' = frames + 1
  /\ rot' = NormalizeAngle(angle)
  /\ winRot' = rot'
  /\ corners' = calculateCorners(bounds, rot')
  /\ ev' = "setRotation"
  /\ UNCHANGED <<bounds, rotationAngle, isDragging, isResizing, isRotating, lastPos,
                 rectangleCenter, resizeHandleType, resizeHandlePosition,
                 initialResizeHandlePos, initialRectBounds, handles, mapDragging, zoom,
                 form, downs, startCorners, startPos, startRot, dropped,
                 gridForm, gridCall, apiVars>>

SetRotationCall == \E angle \in RotationArgs : setRotation(angle)

\* ------------------------------------------------------------------------
\* Configuration download and model generation (apiClient.js)
\* ------------------------------------------------------------------------
\* the variables of the rectangle editor, the last handler's name apart, and
\* with them what no handler of apiClient.js touches
editorVars == <<bounds, rot, corners, winRot, rotationAngle, isDragging, isResizing, isRotating,
                lastPos, rectangleCenter, resizeHandleType, resizeHandlePosition,
                initialResizeHandlePos, initialRectBounds, handles, mapDragging, zoom, form,
                frames, downs, startCorners, startPos, startRot, dropped, libVars>>

\* the rectangle editor, the grid display and apiClient.js
pageVars == <<bounds, rot, corners, winRot, rotationAngle, isDragging, isResizing, isRotating,
              lastPos, rectangleCenter, resizeHandleType, resizeHandlePosition,
              initialResizeHandlePos, initialRectBounds, handles, mapDragging, zoom, form,
              frames, downs, startCorners, startPos, startRot, dropped,
              gridForm, gridArgs, gridData, gridDisplay, statusMessage, countdownIntervalId,
              intervals, requests, clicks, posts, formData, configData>>

\* the grid fields edited and the values typed into them; extent-zmin keeps the
\* value of the page as served
GridFields == {"xySpacing", "extentZmax", "zSpacing"}

GridTypedValues(field) ==
  CASE field = "xySpacing" -> {400, 1000}
    [] field = "extentZmax" -> {45000, NaN}
    [] field = "zSpacing" -> {400, 5000}

\* an 'input' event of one of the grid fields that are not extents
GridFieldInput ==
  \E field \in GridFields : \E v \in GridTypedValues(field) :
    /\ gridForm' = [gridForm EXCEPT ![field] = v]
    /\ gridForm' # gridForm
    /\ updateGridPointDisplay(form, gridForm')
    /\ ev' = "grid_input"
    /\ UNCHANGED <<editorVars, apiVars>>

\* the values typed for a short countdown: a spacing of 10 km, or a depth that
\* is not a number
CoarseTypedValues(field) ==
  CASE field = "xySpacing" -> {400, 10000}
    [] field = "extentZmax" -> {45000, NaN}

\* an 'input' event of the xy-spacing or the extent-zmax field
CoarseGridInput ==
  \E field \in {"xySpacing", "extentZmax"} : \E v \in CoarseTypedValues(field) :
    /\ gridForm' = [gridForm EXCEPT ![field] = v]
    /\ gridForm' # gridForm
    /\ updateGridPointDisplay(form, gridForm')
    /\ ev' = "grid_input"
    /\ UNCHANGED <<editorVars, apiVars>>

\* the output directory is typed or cleared
OutputDirInput ==
  \E v \in {"/tmp", ""} :
    /\ gridForm' = [gridForm EXCEPT !.outputDir = v]
    /\ gridForm' # gridForm
    /\ ev' = "field_input"
    /\ UNCHANGED <<editorVars, gridCall, apiVars>>

\* downloadConfigFile: the record written to nzcvm_config.txt
downloadConfigFile ==
  /\ configData' = getConfigurationDataForFile(form, gridForm)
  /\ UNCHANGED <<editorVars, gridForm, gridCall, statusMessage, countdownIntervalId, intervals,
                 requests, clicks, posts, formData>>

\* a click on #downloadBtn
DownloadClick == downloadConfigFile /\ ev' = "download"

\* a click on #download-config-link-for-large-model, while the status message holds it
RefusalLinkClick == statusMessage.link /\ downloadConfigFile /\ ev' = "download_link"

\* estimatedSeconds >= 600 never holding
exceedsLimitNever(estimatedSeconds) == FALSE

\* estimatedSeconds >= 600
exceedsLimit(estimatedSeconds) == estimatedSeconds >= runtimeLimit

refusalStatus == [text |-> "refusal", color |-> "red", link |-> TRUE]
countdownStatus(remainingSeconds) ==
  [text |-> "countdown", color |-> "chocolate", link |-> FALSE, remaining |-> remainingSeconds]
longerStatus == [text |-> "longer", color |-> "chocolate", link |-> FALSE]
generatingStatus == [text |-> "generating", color |-> "orange", link |-> FALSE]
successStatus == [text |-> "success", color |-> "green", link |-> FALSE]
errorStatus == [text |-> "error", color |-> "red", link |-> FALSE]

\* no interval cleared
clearedNever == intervals

\* the intervals left by if (countdownIntervalId) clearInterval(countdownIntervalId)
cleared == {i \in intervals : i.id # countdownIntervalId}

\* generateModelAndDownload, from the click to the await of fetch
GenerateClick ==
  /\ clicks < MaxClicks
  /\ clicks' = clicks + 1
  /\ gridArgs' = readGridFields(form, gridForm)
  /\ gridData' = calculateGridPointsOf(gridArgs')
  /\ LET estimatedSeconds == calculateApproxRunTime(gridData'.totalGridPoints)
         remainingSeconds == IF isNaN(estimatedSeconds) THEN NaN
                             ELSE (estimatedSeconds + 500) \div 1000
     IN IF exceedsLimit(estimatedSeconds)
        THEN /\ statusMessage' = refusalStatus
             /\ countdownIntervalId' = 0
             /\ intervals' = cleared
             /\ ev' = "generate_refused"
             /\ UNCHANGED <<requests, posts, formData>>
        ELSE /\ IF remainingSeconds > 0
                THEN /\ statusMessage' = countdownStatus(remainingSeconds)
                     /\ countdownIntervalId' = clicks'
                     /\ intervals' = cleared \cup {[id |-> clicks',
                                                    remainingSeconds |-> remainingSeconds]}
                ELSE /\ statusMessage' = generatingStatus
                     /\ countdownIntervalId' = 0
                     /\ intervals' = cleared
             /\ formData' = collectFormData(form, gridForm)
             /\ posts' = posts + 1
             /\ requests' = requests \cup {[click |-> clicks', stage |-> "fetch"]}
             /\ ev' = "generate_sent"
  /\ UNCHANGED <<editorVars, gridForm, gridDisplay, configData>>

\* a callback that takes the countdown for run out when it reaches zero
CountdownTickEarly ==
  \E i \in intervals :
    /\ i.remainingSeconds >= 0
    /\ LET remainingSeconds == i.remainingSeconds - 1
           counted == (intervals \ {i}) \cup {[i EXCEPT !.remainingSeconds = remainingSeconds]}
       IN IF remainingSeconds > 0
          THEN /\ statusMessage' = countdownStatus(remainingSeconds)
               /\ intervals' = counted
               /\ UNCHANGED countdownIntervalId
          ELSE /\ statusMessage' = longerStatus
               /\ intervals' = {j \in counted : j.id # countdownIntervalId}
               /\ countdownIntervalId' = 0
    /\ ev' = "tick"
    /\ UNCHANGED <<editorVars, gridForm, gridCall, requests, clicks, posts, formData,
                   configData>>

\* the callback of a scheduled interval: remainingSeconds--; updateTimerDisplay().
\* An interval that has counted below zero and is still scheduled counts no
\* further here.
CountdownTick ==
  \E i \in intervals :
    /\ i.remainingSeconds >= 0
    /\ LET remainingSeconds == i.remainingSeconds - 1
           counted == (intervals \ {i}) \cup {[i EXCEPT !.remainingSeconds = remainingSeconds]}
       IN IF remainingSeconds >= 0
          THEN /\ statusMessage' = countdownStatus(remainingSeconds)
               /\ intervals' = counted
               /\ UNCHANGED countdownIntervalId
          ELSE /\ statusMessage' = longerStatus
               /\ intervals' = {j \in counted : j.id # countdownIntervalId}
               /\ countdownIntervalId' = 0
    /\ ev' = "tick"
    /\ UNCHANGED <<editorVars, gridForm, gridCall, requests, clicks, posts, formData,
                   configData>>

\* a catch block that sends the request again
catchBlockRetrying(request) ==
  /\ countdownIntervalId' = 0
  /\ intervals' = cleared
  /\ statusMessage' = generatingStatus
  /\ requests' = (requests \ {request}) \cup {[request EXCEPT !.stage = "fetch"]}
  /\ posts' = posts + 1
  /\ ev' = "response_error"
  /\ UNCHANGED <<editorVars, gridForm, gridCall, clicks, formData, configData>>

\* catch (error) of generateModelAndDownload
catchBlock(request) ==
  /\ countdownIntervalId' = 0
  /\ intervals' = cleared
  /\ statusMessage' = errorStatus
  /\ requests' = requests \ {request}
  /\ ev' = "response_error"
  /\ UNCHANGED <<editorVars, gridForm, gridCall, clicks, posts, formData, configData>>

\* fetch rejects: the request did not reach the server or no response came back
FetchRejected == \E request \in requests : request.stage = "fetch" /\ catchBlock(request)

\* fetch resolves; the timer is cleared and the body is awaited
\*   "text": the status is not a success, or the content type is not application/zip
\*   "blob": the response is a zip
FetchResolved ==
  \E request \in requests : \E stage \in {"text", "blob"} :
    /\ request.stage = "fetch"
    /\ countdownIntervalId' = 0
    /\ intervals' = cleared
    /\ requests' = (requests \ {request}) \cup {[request EXCEPT !.stage = stage]}
    /\ ev' = "response_headers"
    /\ UNCHANGED <<editorVars, gridForm, gridCall, statusMessage, clicks, posts, formData,
                   configData>>

\* response.text() settles and the error is thrown, or response.blob() rejects
BodyFailed == \E request \in requests : request.stage \in {"text", "blob"} /\ catchBlock(request)

\* response.blob() resolves: the zip is saved
BodyDownloaded ==
  \E request \in requests :
    /\ request.stage = "blob"
    /\ statusMessage' = successStatus
    /\ requests' = requests \ {request}
    /\ ev' = "response_success"
    /\ UNCHANGED <<editorVars, gridForm, gridCall, countdownIntervalId, intervals, clicks, posts,
                   formData, configData>>

Next == RotationHandleMouseDown \/ CornerHandleMouseDown \/ SideHandleMouseDown
        \/ RectangleMouseDown \/ PointerMove \/ MouseUp \/ ViewportEvent \/ FormEdit

Spec == Init /\ [][Next]_vars

\* the resize handles alone: the runs in which every session is a resize session
NextResize == CornerHandleMouseDown \/ SideHandleMouseDown \/ PointerMove \/ MouseUp
              \/ ViewportEvent

SpecResize == Init /\ [][NextResize]_vars

\* the rotation alone: direct setRotation calls, rotate sessions and form edits
NextRotation == SetRotationCall \/ RotationHandleMouseDown \/ PointerMove \/ MouseUp
                \/ FormEdit

SpecRotation == Init /\ [][NextRotation]_vars

\* the handlers without the resize handles: rotate and move sessions, form edits
\* and viewport events
NextRotate == RotationHandleMouseDown \/ RectangleMouseDown \/ PointerMove \/ MouseUp
              \/ ViewportEvent \/ FormEdit

SpecRotate == Init /\ [][NextRotate]_vars

\* the pointer handlers alone: sessions of the three kinds, overlapping or not
NextPointer == RotationHandleMouseDown \/ CornerHandleMouseDown \/ SideHandleMouseDown
               \/ RectangleMouseDown \/ PointerMove \/ MouseUp

SpecPointer == Init /\ [][NextPointer]_vars

\* corner-resize sessions and zoom events
NextZoom == CornerHandleMouseDown \/ PointerMove \/ MouseUp \/ ZoomEvent

SpecZoom == Init /\ [][NextZoom]_vars

\* updateGridPointDisplay from its call of calculateGridPoints on
GridDisplayUpdate ==
  /\ ev = "init"
  /\ gridData' = calculateGridPointsOf(gridArgs)
  /\ gridDisplay' = gridSpans(gridData')
  /\ ev' = "calculateGridPoints"
  /\ UNCHANGED <<editorVars, gridForm, gridArgs, apiVars>>

NextGrid == GridDisplayUpdate

SpecGrid == InitGrid /\ [][NextGrid]_vars

\* the form's grid fields, the generate button and its responses
NextApi == GridFieldInput \/ RefusalLinkClick \/ GenerateClick
           \/ FetchRejected \/ FetchResolved \/ BodyFailed \/ BodyDownloaded

SpecApi == Init /\ [][NextApi]_vars

\* the generate button, its timer and its responses, for grids whose countdown
\* is short
NextCountdown == CoarseGridInput \/ GenerateClick \/ CountdownTick
                 \/ FetchRejected \/ FetchResolved \/ BodyFailed \/ BodyDownloaded

SpecCountdown == Init /\ [][NextCountdown]_vars

\* resize sessions, to their last pointer-move, of rectangles narrower than a
\* pixel, at either zoom level
NextNormalize ==
  TinyFormEdit \/ CornerHandleMouseDown \/ SideHandleMouseDown \/ PointerMove \/ ZoomEvent

SpecNormalize == Init /\ [][NextNormalize]_vars

\* rotations and corner resizes, the pointer also carried across the fixed corner
NextOrder ==
  SetRotationCall \/ CornerHandleMouseDown \/ PointerMoveAcross \/ MouseUp

SpecOrder == Init /\ [][NextOrder]_vars

\* a rotation that is not a quarter turn: the angle of the 3-4-5 triangle and
\* its complement
ObliqueArgs == {37, 53}

ObliqueRotationCall == \E angle \in ObliqueArgs : setRotation(angle)

\* 10.08 degrees: the pointer of a resize carried south across the parallel
\* where the Mercator slope changes, 51 S
FarStep == 28 * Step

FarTargets == IF isResizing /\ lastPos # Null THEN {Shift(lastPos, -FarStep, 0)} ELSE {}

PointerMoveFar == \E p \in PointerTargets \cup FarTargets : MouseMove(p)

NextOblique ==
  ObliqueRotationCall \/ CornerHandleMouseDown \/ PointerMoveFar \/ MouseUp

SpecOblique == Init /\ [][NextOblique]_vars

\* the lengths converted, in u: fractions of a metre, a metre, half a kilometre,
\* the half extents of the page and a thousand kilometres
ConversionKms == {1, 2, 3, 5, 72, 36000, 72000, 10800000, 10800001, 72000000}

\* the reference latitudes: the equator, the latitude of the page, the borders
\* of the latitude bands and 88.9 degrees, north and south
ConversionLats ==
  {0, initialOriginLat, -initialOriginLat, BandLat1, -BandLat1, BandLat1 - 1, BandLat2, -BandLat2,
   BandLat2 - 1, 177800000, -177800000}

\* kmToDegrees is about to be called with a length and a reference latitude
InitConversion ==
  /\ InitDisplay
  /\ conv \in [km : ConversionKms, centerLat : ConversionLats, lat : {0}, lon : {0},
               latKm : {0}, lonKm : {0}, step : {"called"}]

KmToDegreesCall ==
  /\ conv.step = "called"
  /\ LET d == kmToDegrees(conv.km, conv.centerLat)
     IN conv' = [conv EXCEPT !.lat = d.lat, !.lon = d.lon, !.step = "degrees"]
  /\ ev' = "kmToDegrees"
  /\ UNCHANGED <<pageVars, loads>>

DegreesToKmCall ==
  /\ conv.step = "degrees"
  /\ LET k == degreesToKm(conv.lat, conv.lon, conv.centerLat)
     IN conv' = [conv EXCEPT !.latKm = k.latKm, !.lonKm = k.lonKm, !.step = "km"]
  /\ ev' = "degreesToKm"
  /\ UNCHANGED <<pageVars, loads>>

NextConversion == KmToDegreesCall \/ DegreesToKmCall

SpecConversion == InitConversion /\ [][NextConversion]_vars

\* resize sessions whose pointer also rests and returns to its first position
NextSnapshot == CornerHandleMouseDown \/ SideHandleMouseDown \/ PointerMoveAgain \/ MouseUp

SpecSnapshot == Init /\ [][NextSnapshot]_vars

\* resize sessions at either zoom level, the dragged corner also brought close
\* to the corner that stays
NextMinimum ==
  CornerHandleMouseDown \/ SideHandleMouseDown \/ PointerMoveNear \/ MouseUp \/ ZoomEvent

SpecMinimum == Init /\ [][NextMinimum]_vars

\* ------------------------------------------------------------------------
\* loadGeoJSONByModelVersion(filename) (geojsonHandler.js)
\* ------------------------------------------------------------------------
\* const maxRetries = 3
maxRetries == 3

\* String.prototype.includes and endsWith, a string being the sequence of its parts
includes(message, part) == \E k \in 1..Len(message) : message[k] = part

endsWith(filename, suffix) == Len(filename) > 0 /\ filename[Len(filename)] = suffix

\* the values of #model-version the function is called with
Filenames == {<<"2p03_basins", ".geojson">>, <<"2p03_basins", ".geojson", ".gz">>, <<>>}

\* the errors thrown in the try block of attemptFetch
noError == [name |-> "none", message |-> <<>>]

httpError(status) == [name |-> "Error", message |-> <<"HTTP error ", status, ": ">>]

failedToFetch == [name |-> "TypeError", message |-> <<"Failed to fetch">>]

contentLengthMismatch ==
  [name |-> "TypeError", message |-> <<"net::ERR_", "CONTENT_LENGTH", "_MISMATCH">>]

abortError == [name |-> "AbortError", message |-> <<"The user aborted a request.">>]

syntaxError == [name |-> "SyntaxError", message |-> <<"Unexpected token < in JSON at position 0">>]

timedOut == [name |-> "Error", message |-> <<"Request timed out while loading GeoJSON data">>]

\* the statuses of a response that is not ok
ErrorStatuses == {"400", "404", "500"}

\* a test of the message that lets every error through
isTransientAlways(message) == TRUE

\* the test of the message in the catch block of attemptFetch
isTransient(message) ==
  \/ includes(message, "400") \/ includes(message, "500")
  \/ includes(message, "CONTENT_LENGTH") \/ includes(message, "Failed to fetch")

\* the call has removed the layer currentGeoJSONLayer pointed to
clearedLayers == [i \in DOMAIN loads |-> [loads[i] EXCEPT !.current = FALSE,
                                            !.onMap = loads[i].onMap /\ ~loads[i].current]]

\* loadGeoJSONByModelVersion(filename), to the await of the first fetch
LoadCall ==
  \E filename \in Filenames :
    /\ Len(loads) < MaxLoads
    /\ loads' = Append(clearedLayers,
                       IF endsWith(filename, ".geojson")
                       THEN [filename |-> filename, stage |-> "fetch", retryCount |-> 0,
                             fetches |-> 1, alerts |-> 0, error |-> noError, indicator |-> TRUE,
                             onMap |-> FALSE, current |-> FALSE]
                       ELSE [filename |-> filename, stage |-> "returned", retryCount |-> 0,
                             fetches |-> 0, alerts |-> 0, error |-> noError, indicator |-> FALSE,
                             onMap |-> FALSE, current |-> FALSE])
    /\ ev' = "load"
    /\ UNCHANGED <<pageVars, conv>>

\* what the outer catch of loadGeoJSONByModelVersion does with the error thrown
\* by attemptFetch: one alert
reported(call, error) ==
  [call EXCEPT !.stage = "failed", !.error = error, !.alerts = call.alerts + 1]

\* catch (error) of attemptFetch, for the call itself
catchOfAttempt(call, error) ==
  IF error.name = "AbortError"
  THEN reported(call, timedOut)
  ELSE IF call.retryCount < maxRetries - 1 /\ isTransient(error.message)
  THEN [call EXCEPT !.stage = "wait", !.error = error, !.retryCount = call.retryCount + 1]
  ELSE reported(call, error)

\* document.getElementById('loading-indicator'): the first element of that id
\* in the page, the one of the earliest call whose indicator is still there; 0
\* for null
loadingIndicator(ls) ==
  IF \E k \in DOMAIN ls : ls[k].indicator
  THEN CHOOSE k \in DOMAIN ls : ls[k].indicator /\ \A j \in 1..(k - 1) : ~ls[j].indicator
  ELSE 0

\* if (loadingIndicator) loadingIndicator.remove()
removeIndicator(ls) ==
  [k \in DOMAIN ls |-> IF k = loadingIndicator(ls) THEN [ls[k] EXCEPT !.indicator = FALSE]
                        ELSE ls[k]]

\* the calls after catch (error) of attemptFetch in call i: the indicator is
\* removed on the way to throw error, past the timeout and the retry
caught(i, error) ==
  IF error.name # "AbortError" /\ catchOfAttempt(loads[i], error).stage = "failed"
  THEN removeIndicator([loads EXCEPT ![i] = catchOfAttempt(loads[i], error)])
  ELSE [loads EXCEPT ![i] = catchOfAttempt(loads[i], error)]

\* fetch rejects: no connection, or the 60 s timer has aborted the request
FetchThrows ==
  \E i \in DOMAIN loads : \E error \in {failedToFetch, abortError} :
    /\ loads[i].stage = "fetch"
    /\ loads' = caught(i, error)
    /\ ev' = "load_error"
    /\ UNCHANGED <<pageVars, conv>>

\* fetch resolves with a response that is not ok
ResponseNotOk ==
  \E i \in DOMAIN loads : \E status \in ErrorStatuses :
    /\ loads[i].stage = "fetch"
    /\ loads' = caught(i, httpError(status))
    /\ ev' = "load_error"
    /\ UNCHANGED <<pageVars, conv>>

\* fetch resolves with a response that is ok: response.json() is awaited
ResponseOk ==
  \E i \in DOMAIN loads :
    /\ loads[i].stage = "fetch"
    /\ loads' = [loads EXCEPT ![i].stage = "json"]
    /\ ev' = "load_response"
    /\ UNCHANGED <<pageVars, conv>>

\* response.json() rejects: the body is cut short or is not JSON
JsonThrows ==
  \E i \in DOMAIN loads : \E error \in {contentLengthMismatch, syntaxError} :
    /\ loads[i].stage = "json"
    /\ loads' = caught(i, error)
    /\ ev' = "load_error"
    /\ UNCHANGED <<pageVars, conv>>

\* response.json() resolves: the layer and the legend are added
JsonParsed ==
  \E i \in DOMAIN loads :
    /\ loads[i].stage = "json"
    /\ loads' = removeIndicator([k \in DOMAIN loads |->
                                   IF k = i
                                   THEN [loads[k] EXCEPT !.stage = "loaded", !.onMap = TRUE,
                                                         !.current = TRUE]
                                   ELSE [loads[k] EXCEPT !.current = FALSE]])
    /\ ev' = "load_success"
    /\ UNCHANGED <<pageVars, conv>>

\* the one second before a retry is over: attemptFetch calls fetch again
RetryFetch ==
  \E i \in DOMAIN loads :
    /\ loads[i].stage = "wait"
    /\ loads' = [loads EXCEPT ![i].stage = "fetch", ![i].fetches = loads[i].fetches + 1]
    /\ ev' = "load_retry"
    /\ UNCHANGED <<pageVars, conv>>

NextLoad ==
  LoadCall \/ FetchThrows \/ ResponseNotOk \/ ResponseOk \/ JsonThrows \/ JsonParsed
  \/ RetryFetch

SpecLoad == Init /\ [][NextLoad]_vars

\* the three kinds of session and the form: the runs without side handles and
\* viewport events
NextFrame ==
  RotationHandleMouseDown \/ CornerHandleMouseDown \/ RectangleMouseDown \/ PointerMove
  \/ MouseUp \/ FormEdit

SpecFrame == Init /\ [][NextFrame]_vars

\* form edits, with latitudes up to and beyond the pole, and drags of the body
NextLatitude == FormEdit \/ PolarFormEdit \/ RectangleMouseDown \/ PointerMove \/ MouseUp

SpecLatitude == Init /\ [][NextLatitude]_vars

\* the fields of the two records, the download button and the generate button
NextConfig == GridFieldInput \/ OutputDirInput \/ DownloadClick \/ GenerateClick

SpecConfig == Init /\ [][NextConfig]_vars

\* ------------------------------------------------------------------------
\* Claims
\* ------------------------------------------------------------------------
NoSession == ~isDragging /\ ~isResizing /\ ~isRotating

\* C1: after any sequence of pointer-down, pointer-move and pointer-up events at
\* most one of isDragging, isResizing and isRotating is true.
C1_AtMostOneSession ==
  /\ ~(isDragging /\ isResizing)
  /\ ~(isDragging /\ isRotating)
  /\ ~(isResizing /\ isRotating)

\* C2: in every reachable state the polygon's corners are
\* _calculateCorners(stored bounds, stored rotation).
C2_CornersDerivedFromState == corners = calculateCorners(bounds, rot)

\* C3: after every accepted pointer-move of a corner-resize session the corner
\* diagonally opposite the dragged handle at the pointer-down is still a corner
\* of the rectangle, at the position it had then.
C3_OppositeCornerFixed ==
  (ev = "resize_accepted" /\ resizeHandleType = "corner")
    => \E i \in 1..4 : corners[i] = startCorners[cornerRoles(resizeHandlePosition).fixed]

\* indices into [SW, SE, NE, NW] of the corners of the dragged side and of the
\* opposite side
sideCorners(position) ==
  CASE position = "top" -> [moved |-> {3, 4}, fixed |-> {1, 2}]
    [] position = "bottom" -> [moved |-> {1, 2}, fixed |-> {3, 4}]
    [] position = "left" -> [moved |-> {1, 4}, fixed |-> {2, 3}]
    [] position = "right" -> [moved |-> {2, 3}, fixed |-> {1, 4}]

\* the component of the pointer's movement since the pointer-down that is
\* perpendicular to the dragged side, on the screen
PerpendicularMove ==
  LET m == sideCorners(resizeHandlePosition).moved
      a == CHOOSE i \in m : TRUE
      b == CHOOSE i \in m : i # a
      from == latLngToContainerPoint(initialResizeHandlePos)
      to == latLngToContainerPoint(lastPos)
  IN IF startCorners[a].lat = startCorners[b].lat
     THEN [x |-> 0, y |-> to.y - from.y]
     ELSE [x |-> to.x - from.x, y |-> 0]

CornerPoints(c) == {latLngToContainerPoint(c[i]) : i \in 1..4}

\* where a side resize is to leave the four corners, on the screen
SideResizeExpected ==
  {latLngToContainerPoint(startCorners[i]) : i \in sideCorners(resizeHandlePosition).fixed}
    \cup {[x |-> latLngToContainerPoint(startCorners[i]).x + PerpendicularMove.x,
           y |-> latLngToContainerPoint(startCorners[i]).y + PerpendicularMove.y] :
            i \in sideCorners(resizeHandlePosition).moved}

\* C4: after every accepted pointer-move of a side-resize session the two
\* corners of the opposite side are where they were at the pointer-down and the
\* two corners of the dragged side are displaced from there by the component of
\* the pointer's movement perpendicular to the side.
C4_SideResizeMovesOneSide ==
  (ev = "resize_accepted" /\ resizeHandleType = "side")
    => CornerPoints(corners) = SideResizeExpected

centroid(c) ==
  [lat |-> c[1].lat + Div((c[2].lat - c[1].lat) + (c[3].lat - c[1].lat) + (c[4].lat - c[1].lat), 4),
   lng |-> c[1].lng + Div((c[2].lng - c[1].lng) + (c[3].lng - c[1].lng) + (c[4].lng - c[1].lng), 4)]

\* the length of the edge from p to q, an edge running east-west or north-south
edgeLength(p, q, centerLat) ==
  LET d == degreesToKm(Abs(q.lat - p.lat), Abs(q.lng - p.lng), centerLat)
  IN d.latKm + d.lonKm

\* C6: after every accepted pointer-move of a resize session the stored centre
\* is the centroid of the four corners and the stored extents are the
\* rectangle's width and height along its own edges.
C6_CenterAndExtentsFollowResize ==
  ev = "resize_accepted"
    => LET c == getCenter(bounds)
           stored == degreesToKm(bounds.n - bounds.s, bounds.e - bounds.w, c.lat)
       IN /\ c = centroid(corners)
          /\ stored.lonKm = edgeLength(corners[1], corners[2], c.lat)
          /\ stored.latKm = edgeLength(corners[1], corners[4], c.lat)

\* C7: no pointer-move that arrives while a resize session is under way (corner
\* or side handle, accepted or rejected frame) changes the rectangle's rotation.
C7_ResizeKeepsRotation == [][(isResizing /\ frames' = frames + 1) => rot' = rot]_vars

\* C8: a pointer-move of a move session translates the stored centre by the
\* pointer's displacement and leaves the extents in km and the rotation as
\* they were.
C8_MoveTranslatesOnly ==
  [][ev' = "move"
       => /\ getCenter(bounds') = Shift(getCenter(bounds), lastPos'.lat - lastPos.lat,
                                        lastPos'.lng - lastPos.lng)
          /\ formValues(bounds', rot').extentX = formValues(bounds, rot).extentX
          /\ formValues(bounds', rot').extentY = formValues(bounds, rot).extentY
          /\ rot' = rot]_vars

\* C9: after a valid form edit the rectangle's bounds are
\* calculateBoundsFromOriginAndExtents of the form's origin and extents, its
\* rotation is the form's rotation normalised into [0, 360) and its corners are
\* _calculateCorners of the two.
C9_FormEditWrittenBack ==
  ev = "form_valid"
    => LET b == calculateBoundsFromOriginAndExtents(parseDeg(form.originLat), parseDeg(form.originLon),
                                                    parseKm(form.extentX), parseKm(form.extentY))
       IN /\ bounds = b
          /\ rot = NormalizeAngle(form.rotation)
          /\ corners = calculateCorners(b, NormalizeAngle(form.rotation))

\* C10: while no session is under way and the form is valid, the configuration
\* record's ORIGIN_LAT, ORIGIN_LON, ORIGIN_ROT, EXTENT_X and EXTENT_Y are the
\* centre, rotation and extents of the rectangle as stored and drawn.
C10_ConfigMatchesRectangle ==
  (NoSession /\ formIsValid(form))
    => LET cfg == getConfigurationDataForFile(form, gridForm)
           shown == formValues(bounds, rot)
       IN /\ cfg.ORIGIN_LAT = shown.originLat
          /\ cfg.ORIGIN_LON = shown.originLon
          /\ cfg.ORIGIN_ROT = shown.rotation
          /\ cfg.EXTENT_X = shown.extentX
          /\ cfg.EXTENT_Y = shown.extentY
          /\ corners = calculateCorners(bounds, rot)

\* C11: after every setRotation call, rotate frame and form edit the rotation is
\* in [0, 360), and setRotation(x) leaves the rotation of setRotation(x + 360 * k)
\* for every whole number of turns k, negative x included.
C11_RotationNormalised ==
  [][/\ rot' \in 0..359
     /\ \A x \in RotationArgs :
          setRotation(x) => \A k \in -MaxTurns..MaxTurns : rot' = NormalizeAngle(x + 360 * k)]_vars

C11_NegativeAngleSet == ev = "setRotation" /\ rot = 270 /\ isRotating

\* C12: every pointer-move that arrives while a rotate session is under way sets
\* the rotation to normalize(previous rotation + calculateAngle(centre, previous
\* pointer position, current pointer position)), so that the rotation gained
\* since the pointer-down is congruent modulo 360 to calculateAngle(centre,
\* position at the pointer-down, current position).
C12_RotateFramesAddUp ==
  [][(isRotating /\ frames' = frames + 1)
       => /\ rot' = NormalizeAngle(rot + calculateAngle(rectangleCenter, lastPos, lastPos'))
          /\ (rot' - startRot - calculateAngle(rectangleCenter, startPos, lastPos')) % 360 = 0]_vars

C12_HalfTurnInTwoFrames ==
  /\ ev = "rotate" /\ frames = 2
  /\ startPos.lat > rectangleCenter.lat /\ lastPos.lat < rectangleCenter.lat
  /\ rot = NormalizeAngle(startRot + 180)

\* C13: a pointer-up that reaches the map while a session is under way clears the
\* three session flags, lastPos and the resize snapshot, enables map panning
\* again and refills the form from the rectangle, which it leaves as it was; a
\* pointer-up with no session under way changes nothing.
C13_PointerUpEndsSession ==
  [][/\ ev' = "up"
          => /\ ~NoSession
             /\ ~isDragging' /\ ~isResizing' /\ ~isRotating'
             /\ lastPos' = Null
             /\ resizeHandleType' = NullName /\ resizeHandlePosition' = NullName
             /\ initialResizeHandlePos' = Null /\ initialRectBounds' = Null
             /\ mapDragging'
             /\ form' = formValues(bounds', rot')
             /\ UNCHANGED <<bounds, rot, corners>>
     /\ (~NoSession /\ MouseUp) => ev' = "up"
     /\ ev' = "up_ignored"
          => /\ NoSession
             /\ UNCHANGED <<bounds, rot, corners, isDragging, isResizing, isRotating, lastPos,
                            resizeHandleType, resizeHandlePosition, initialResizeHandlePos,
                            initialRectBounds, mapDragging, form, handles, rectangleCenter>>]_vars

C13_RotateSessionEnded == ev = "up" /\ frames = 2 /\ form.rotation # startRot

\* C14: a map viewport event leaves the stored centre, extents and rotation as
\* they were; it redraws the corners and the handles from the stored bounds and
\* rotation.
C14_ViewportOnlyRedraws ==
  [][ev' = "viewport"
       => /\ UNCHANGED <<bounds, rot, winRot, form>>
          /\ corners' = calculateCorners(bounds, rot)
          /\ handles' = handlePositions(bounds, rot, zoom')]_vars

C14_ZoomedAfterRotatedResize ==
  /\ zoom = 15 /\ rot = 90 /\ ev = "viewport" /\ isResizing
  /\ corners # startCorners

\* the run time estimated for the grid in the form
estimateOfForm ==
  calculateApproxRunTime(calculateGridPointsOf(readGridFields(form, gridForm)).totalGridPoints)

\* C15: a click on generate while the run time estimated for the grid in the form
\* exceeds the ceiling sends no POST, leaves no countdown running and shows the
\* refusal message with its link; a click on that link downloads the
\* configuration of the form.
C15_OverCeilingRefused ==
  [][/\ (clicks' = clicks + 1 /\ estimateOfForm > runtimeLimit)
          => /\ posts' = posts /\ requests' = requests /\ formData' = formData
             /\ countdownIntervalId' = 0
             /\ statusMessage'.text = "refusal" /\ statusMessage'.link
     /\ ev' = "download_link"
          => /\ statusMessage.text = "refusal"
             /\ configData' = getConfigurationDataForFile(form, gridForm)]_vars

C15_RefusedThenLinkClicked ==
  /\ ev = "download_link" /\ statusMessage = refusalStatus
  /\ clicks = 2 /\ posts = 1 /\ countdownIntervalId = 0
  /\ estimateOfForm > runtimeLimit
  /\ configData.EXTENT_Z_SPACING = gridForm.zSpacing

\* C16: a click on generate sends at most one POST and nothing else sends one;
\* when a request fails (fetch rejects, or the response is not a success or not
\* a zip) the status message becomes the error message, in red, and no request
\* is sent for it again.
C16_OnePostNoRetry ==
  [][/\ posts' \in {posts, posts + 1}
     /\ posts' = posts + 1 => clicks' = clicks + 1
     /\ ev' = "response_error"
          => /\ statusMessage' = errorStatus
             /\ posts' = posts
             /\ requests' \subseteq requests /\ requests' # requests
             /\ countdownIntervalId' = 0]_vars

C16_FailedWhileAnotherWaits ==
  /\ ev = "response_error" /\ statusMessage = errorStatus
  /\ clicks = 2 /\ posts = 2
  /\ \E request \in requests : request.stage = "text"

\* a field of the rectangle does not parse as a number, or an extent is not positive
formIsRejected(f) ==
  \/ \E field \in FormFields : f[field] = NaN
  \/ f.extentX <= 0 \/ f.extentY <= 0

\* C17: a form edit after which one of origin latitude, origin longitude, extent
\* X, extent Y and rotation does not parse as a number, or an extent is <= 0,
\* returns without writing: bounds, rotation and corners are as before.
C17_InvalidFormChangesNothing ==
  [][(ev' \in {"form_valid", "form_invalid"} /\ formIsRejected(form'))
       => /\ ev' = "form_invalid"
          /\ UNCHANGED <<bounds, rot, corners, winRot, handles>>]_vars

C17_ZeroExtentAfterValidEdit ==
  /\ ev = "form_invalid" /\ form.extentX = 0 /\ form.originLat = -60000000
  /\ getCenter(bounds).lat = parseDeg(form.originLat)
  /\ corners = calculateCorners(bounds, rot)

\* a number that is neither NaN nor an infinity
isFiniteNumber(x) == ~isNaN(x) /\ ~isInfinite(x)

allFinite(args) ==
  /\ isFiniteNumber(args.extentX) /\ isFiniteNumber(args.extentY)
  /\ isFiniteNumber(args.extentLatlonSpacing) /\ isFiniteNumber(args.extentZmax)
  /\ isFiniteNumber(args.extentZmin) /\ isFiniteNumber(args.extentZSpacing)

allPlaceholders(spans) ==
  /\ spans.nx = Placeholder /\ spans.ny = Placeholder /\ spans.nz = Placeholder
  /\ spans.total = Placeholder /\ spans.runtime = Placeholder

\* C18: called with a spacing <= 0 or with an argument that is NaN or an
\* infinity, calculateGridPoints returns nx, ny, nz and totalGridPoints all NaN,
\* and the five spans of the grid display show '---'.
C18_InvalidInputsGiveSentinel ==
  (/\ ev = "calculateGridPoints"
   /\ \/ ~allFinite(gridArgs)
      \/ gridArgs.extentLatlonSpacing <= 0 \/ gridArgs.extentZSpacing <= 0)
    => (gridData = invalidGrid /\ allPlaceholders(gridDisplay))

\* n = Math.round(a / b) for b > 0: n - 1/2 <= a / b < n + 1/2
isRounded(n, a, b) == 2 * n * b - b <= 2 * a /\ 2 * a < 2 * n * b + b

FourteenKeys ==
  {"CALL_TYPE", "MODEL_VERSION", "ORIGIN_LAT", "ORIGIN_LON", "ORIGIN_ROT", "EXTENT_X",
   "EXTENT_Y", "EXTENT_ZMAX", "EXTENT_ZMIN", "EXTENT_Z_SPACING", "EXTENT_LATLON_SPACING",
   "MIN_VS", "TOPO_TYPE", "OUTPUT_DIR"}

\* the record has the fourteen keys, the call type GENERATE_VELOCITY_MOD and the
\* horizontal spacing g.xySpacing
isConfigRecord(record, g) ==
  /\ DOMAIN record = FourteenKeys
  /\ record.CALL_TYPE = "GENERATE_VELOCITY_MOD"
  /\ record.EXTENT_LATLON_SPACING = g.xySpacing

\* C20: the record a download writes and the record a click on generate posts
\* each have exactly the fourteen keys CALL_TYPE ... OUTPUT_DIR, with CALL_TYPE
\* GENERATE_VELOCITY_MOD and EXTENT_LATLON_SPACING the value of the xy-spacing
\* field as typed.
C20_RecordsCarryFourteenKeys ==
  [][/\ ev' \in {"download", "download_link"} => isConfigRecord(configData', gridForm)
     /\ ev' = "generate_sent" => isConfigRecord(formData', gridForm)]_vars

\* C21: the reference latitude of every conversion between kilometres and
\* degrees, which is the latitude of the centre of the stored bounds
\* (_calculateCorners) or the origin latitude of a valid form
\* (calculateBoundsFromOriginAndExtents), lies strictly between -90 and +90
\* degrees.
C21_ReferenceLatitudeOffPoles ==
  /\ Abs(getCenter(bounds).lat) < 90 * TicksPerDeg
  /\ ev = "form_valid" => Abs(parseDeg(form.originLat)) < 90 * TicksPerDeg

\* the lengths of the two axes that the rotated branch of handleCornerResize
\* normalizes, from the polygon's corners
axisLengths ==
  LET r == cornerRoles(resizeHandlePosition)
      fixedPoint == latLngToContainerPoint(corners[r.fixed])
      otherPoint1 == latLngToContainerPoint(corners[r.other1])
      otherPoint2 == latLngToContainerPoint(corners[r.other2])
  IN {Hypot(otherPoint1.x - fixedPoint.x, otherPoint1.y - fixedPoint.y),
      Hypot(otherPoint2.x - fixedPoint.x, otherPoint2.y - fixedPoint.y)}

\* the length of the normal that handleSideResize normalizes, from the snapshot
perpLength ==
  LET side == sideVector(resizeHandlePosition,
                         sideRotatedCorners(initialRectBounds,
                                            latLngToContainerPoint(getCenter(initialRectBounds)),
                                            winRot))
  IN Hypot(-side.y, side.x)

\* whether the resize frame about to run has a vector too short to normalize
degenerateVector ==
  /\ isResizing /\ initialRectBounds # Null /\ initialResizeHandlePos # Null
  /\ IF resizeHandleType = "corner"
     THEN ~isUnrotated(winRot) /\ \E l \in axisLengths : l < PuPerPx(zoom)
     ELSE perpLength = 0

isFiniteLatLng(p) ==
  {p.lat, p.lng} \cap {NaN, Infinity, NegInfinity} = {}

sign(x) == IF x > 0 THEN 1 ELSE IF x < 0 THEN -1 ELSE 0

\* on which side of the centroid of the four points c the point c[i] lies
sideOfCentroid(c, i) ==
  [lat |-> sign(4 * c[i].lat - (c[1].lat + c[2].lat + c[3].lat + c[4].lat)),
   lng |-> sign(4 * c[i].lng - (c[1].lng + c[2].lng + c[3].lng + c[4].lng))]

\* C23: the corner array has exactly four points, and for every rotation, also
\* after a corner resize, index i holds the image of corner i of the unrotated
\* box in the order SW, SE, NE, NW: each point lies on the side of the centroid
\* where _calculateCorners puts the corner of that index at the stored rotation.
C23_CornerOrderKept ==
  /\ DOMAIN corners = 1..4
  /\ \A i \in 1..4 :
       sideOfCentroid(corners, i) = sideOfCentroid(calculateCorners(latLngBounds4(corners), rot), i)

\* the centre of gravity of the four corners, times four
cornerSum(c) ==
  [lat |-> c[1].lat + c[2].lat + c[3].lat + c[4].lat,
   lng |-> c[1].lng + c[2].lng + c[3].lng + c[4].lng]

\* the tolerance of the centroid: 0.000004 degree, in ticks
CentroidTolerance == 8

\* C24: in every state with positive extents the centroid of the four corners
\* is the centre of the stored bounds, within the tolerance.
C24_CentroidIsCentre ==
  (bounds.n > bounds.s /\ bounds.e > bounds.w)
    => /\ Abs(cornerSum(corners).lat - 4 * getCenter(bounds).lat) <= 4 * CentroidTolerance
       /\ Abs(cornerSum(corners).lng - 4 * getCenter(bounds).lng) <= 4 * CentroidTolerance

\* the same for the states whose corners are those _calculateCorners gives for
\* the stored bounds
C24_CentroidOfCalculatedCorners ==
  (bounds.n > bounds.s /\ bounds.e > bounds.w /\ corners = calculateCorners(bounds, rot))
    => /\ Abs(cornerSum(corners).lat - 4 * getCenter(bounds).lat) <= 4 * CentroidTolerance
       /\ Abs(cornerSum(corners).lng - 4 * getCenter(bounds).lng) <= 4 * CentroidTolerance

\* the rounding of one conversion: half a tick of latitude, in u
ConversionTolerance == 2

\* C25: for every length > 0 and every reference latitude strictly between -89
\* and 89 degrees, degreesToKm of the degrees kmToDegrees returned gives the
\* length back in both components, within the rounding of one conversion.
C25_RoundTrip ==
  (conv.step = "km" /\ conv.km > 0 /\ Abs(conv.centerLat) < 89 * TicksPerDeg)
    => /\ Abs(conv.latKm - conv.km) <= ConversionTolerance
       /\ Abs(conv.lonKm - conv.km) <= ConversionTolerance

\* half the page's extent was converted at the page's latitude and came back
C25_HalfExtentBack ==
  /\ conv.step = "km" /\ conv.km = 10800000 /\ conv.centerLat = initialOriginLat
  /\ conv.lonKm = conv.km

\* the square of the distance of p from c in kilometre space, in units of 100 m
kmDistanceSquared(c, p) ==
  LET k == degreesToKm(p.lat - c.lat, p.lng - c.lng, c.lat)
      dy == Div(k.latKm, 100 * UPerM)
      dx == Div(k.lonKm, 100 * UPerM)
  IN dx * dx + dy * dy

\* the rectangle of the page: 300 km by 300 km about (-41.2865, 174.7762)
defaultBounds ==
  calculateBoundsFromOriginAndExtents(initialOriginLat, initialOriginLon,
                                      parseKm(initialExtentX), parseKm(initialExtentY))

\* the index whose corner lies a quarter turn clockwise ahead: SW -> NW -> NE -> SE -> SW
nextClockwise(i) == IF i = 1 THEN 4 ELSE i - 1

\* C26: setRotation(90) on the page's rectangle at rotation 0 keeps the centre,
\* keeps each corner's distance from the centre in kilometres and puts the
\* corner of index i where the next corner in rotation order was.
C26_QuarterTurnShiftsCorners ==
  [][(ev' = "setRotation" /\ rot = 0 /\ rot' = 90 /\ bounds = defaultBounds
        /\ corners = calculateCorners(bounds, 0))
     => /\ getCenter(bounds') = getCenter(bounds)
        /\ \A i \in 1..4 :
             /\ corners'[i] = corners[nextClockwise(i)]
             /\ kmDistanceSquared(getCenter(bounds), corners'[i])
                  = kmDistanceSquared(getCenter(bounds), corners[i])]_vars

\* setRotation(90) has turned the page's rectangle: its south-west corner is
\* where the north-west corner was
C26_QuarterTurnDone ==
  /\ ev = "setRotation" /\ rot = 90 /\ rotationAngle = 0 /\ bounds = defaultBounds
  /\ corners[1] = getNorthWest(bounds) /\ corners[2] = getSouthWest(bounds)

resizeFrame == {"resize_accepted", "resize_rejected"}

\* C27: in a resize session a pointer-move at the position of the pointer-move
\* before it leaves the rectangle as it is, and a pointer-move at the position
\* of the pointer-down gives the rectangle of the pointer-down.
C27_ResizeFromSnapshot ==
  [][(isResizing /\ ~isDragging /\ ~isRotating /\ ev' \in resizeFrame)
     => /\ (ev \in resizeFrame /\ lastPos' = lastPos)
             => (corners' = corners /\ bounds' = bounds)
        /\ lastPos' = initialResizeHandlePos
             => (corners' = startCorners /\ bounds' = initialRectBounds)]_vars

\* the same for the sessions that do not run the rotated branch of
\* handleCornerResize and whose polygon, at the pointer-down, was the one
\* _calculateCorners gives for the stored bounds
C27_SnapshotBranches ==
  [][(isResizing /\ ~isDragging /\ ~isRotating /\ ev' \in resizeFrame
        /\ (resizeHandleType = "side" \/ isUnrotated(winRot))
        /\ startCorners = calculateCorners(initialRectBounds, rot))
     => /\ (ev \in resizeFrame /\ lastPos' = lastPos)
             => (corners' = corners /\ bounds' = bounds)
        /\ lastPos' = initialResizeHandlePos
             => (corners' = startCorners /\ bounds' = initialRectBounds)]_vars

\* C28: after every pointer-move of a resize session the stored bounds span at
\* least 0.001 degree of latitude and 0.001 degree of longitude.
C28_MinimumExtentKept ==
  [][(isResizing /\ ev' \in resizeFrame)
     => (bounds'.n - bounds'.s >= minSize /\ bounds'.e - bounds'.w >= minSize)]_vars

\* the same for the accepted frames that do not run the rotated branch of
\* handleCornerResize
C28_MinimumExtentTested ==
  [][(isResizing /\ ~isDragging /\ ~isRotating /\ ev' = "resize_accepted"
        /\ (resizeHandleType = "side" \/ isUnrotated(winRot)))
     => (bounds'.n - bounds'.s >= minSize /\ bounds'.e - bounds'.w >= minSize)]_vars

\* the errors after which the claim lets a call fetch again
RetriedErrors == {httpError("400"), httpError("500"), contentLengthMismatch, failedToFetch}

\* C29: a call of loadGeoJSONByModelVersion fetches at most three times; it
\* fetches again only after an error whose message contains 400, 500,
\* CONTENT_LENGTH or 'Failed to fetch', never once it has loaded the layer and
\* never after the abort of the timeout; and a call that has failed has
\* reported its error exactly once, a call that has not failed never.
C29_BoundedRetries ==
  /\ [](\A i \in DOMAIN loads :
          /\ loads[i].fetches <= maxRetries
          /\ loads[i].alerts = (IF loads[i].stage = "failed" THEN 1 ELSE 0))
  /\ [][\A i \in DOMAIN loads :
          /\ loads'[i].fetches > loads[i].fetches
               => /\ loads'[i].fetches = loads[i].fetches + 1
                  /\ loads[i].error \in RetriedErrors
                  /\ loads[i].error.name # "AbortError"
                  /\ loads[i].error # timedOut
                  /\ loads[i].stage = "wait"
          /\ loads[i].stage \in {"loaded", "failed", "returned"} => loads'[i].stage = loads[i].stage
          /\ (loads[i].stage = "fetch" /\ ev' = "load_error" /\ loads'[i].error = timedOut)
               => loads'[i].stage = "failed"]_vars

\* a call has fetched three times, each time after a transient error, and has
\* reported the third error
C29_ThreeFetchesThenReport ==
  \E i \in DOMAIN loads :
    /\ loads[i].fetches = maxRetries /\ loads[i].stage = "failed" /\ loads[i].alerts = 1
    /\ loads[i].error \in RetriedErrors

\* the compass bearing of p seen from c, clockwise from north, for a point due
\* north, east, south or west of c
bearing(c, p) ==
  IF p.lng = c.lng /\ p.lat > c.lat THEN 0
  ELSE IF p.lat = c.lat /\ p.lng > c.lng THEN 90
  ELSE IF p.lng = c.lng /\ p.lat < c.lat THEN 180
  ELSE 270

\* the quarter turn the pointer has swept about c from p1 to p2: 90 clockwise,
\* -90 counter-clockwise, 0 for any other sweep
quarterSweep(c, p1, p2) ==
  LET d == JsMod(bearing(c, p2) - bearing(c, p1) + 360, 360)
  IN IF d = 90 THEN 90 ELSE IF d = 270 THEN -90 ELSE 0

\* a pointer-move of a rotate session alone, between two positions on the axes
\* through the centre, a quarter turn apart
quarterTurnFrame ==
  /\ isRotating /\ ~isDragging /\ ~isResizing /\ ev' = "rotate"
  /\ OnAxis(rectangleCenter, lastPos) /\ lastPos # rectangleCenter
  /\ OnAxis(rectangleCenter, lastPos') /\ lastPos' # rectangleCenter
  /\ quarterSweep(rectangleCenter, lastPos, lastPos') # 0

\* C30: a pointer-move of a rotate session that sweeps a quarter turn clockwise
\* about the centre adds 90 degrees to the clockwise rotation of the rectangle,
\* and one that sweeps a quarter turn counter-clockwise takes 90 degrees off.
C30_TurnsWithPointer ==
  [][quarterTurnFrame
     => rot' = JsMod(rot + quarterSweep(rectangleCenter, lastPos, lastPos') + 360, 360)]_vars

\* what the handler does: the rotation changes by the swept angle the other way
C30_TurnsAgainstPointer ==
  [][quarterTurnFrame
     => rot' = JsMod(rot - quarterSweep(rectangleCenter, lastPos, lastPos') + 360, 360)]_vars

\* C31: the stored bounds and the rotation change only in a pointer-move of a
\* session under way or in a valid form edit; a pointer-down, a pointer-up and
\* a pointer-move with no session under way leave them as they were, and a
\* pointer-move of a rotate session leaves the stored bounds as they were.
C31_ChangedOnlyByFramesAndForm ==
  [][/\ ((bounds' # bounds \/ rot' # rot)
          => (\/ ~NoSession /\ ev' \in {"rotate", "move", "resize_accepted"}
              \/ ev' = "form_valid"))
      /\ (ev' \in {"down_rotate", "down_resize", "down_rectangle", "up", "up_ignored", "move_none"}
          => (bounds' = bounds /\ rot' = rot))
      /\ ((NoSession /\ ev' \notin {"form_valid", "form_invalid"})
          => (bounds' = bounds /\ rot' = rot))
      /\ (ev' = "rotate" => bounds' = bounds)]_vars

\* a rotate session has turned the rectangle and the pointer-up has followed
C31_TurnedThenReleased == ev = "up" /\ NoSession /\ rot # startRot

\* C32: after any sequence of pointer-down, pointer-move and pointer-up events
\* map panning is disabled if and only if one of the three session flags is
\* true.
C32_PanningOffExactlyInSession == mapDragging <=> NoSession

\* two pointer-downs have overlapped and one pointer-up has ended both sessions
C32_PanningBackAfterOverlap == ev = "up" /\ downs = 2 /\ mapDragging /\ startPos # Null

\* C33: whenever no session is under way, the rotation handle and the eight
\* resize handles sit at the positions derived from the stored bounds and the
\* rotation of the rectangle.
C33_HandlesFollowRectangle == NoSession => handles = handlePositions(bounds, rot, zoom)

\* C34: a POST is sent only when the run time estimated for the grid in the
\* form is a number below the ceiling; with an estimate that is NaN a click on
\* generate sends nothing.
C34_PostOnlyForValidEstimate ==
  [][posts' = posts + 1 => (~isNaN(estimateOfForm) /\ estimateOfForm < runtimeLimit)]_vars

\* C35: whatever the order of generate clicks and request completions, at most
\* one countdown interval is scheduled, and none is once no request is in
\* flight.
C35_OneCountdownNoneAtRest ==
  /\ Cardinality(intervals) <= 1
  /\ requests = {} => intervals = {}

C35_LaterAnswerFindsNoCountdown ==
  /\ ev = "response_error" /\ requests = {} /\ clicks = 2 /\ posts = 2
  /\ statusMessage = errorStatus /\ intervals = {}
  /\ formData.EXTENT_LATLON_SPACING = 10000 /\ formData.EXTENT_ZMAX = 45000

\* the interval's callback runs every second for as long as the interval is scheduled
SpecCountdownFair == SpecCountdown /\ WF_vars(CountdownTick)

\* Math.round(estimatedSeconds) of the grid in the form
roundedEstimateOfForm == (estimateOfForm + 500) \div 1000

\* C36: the countdown ends by itself: the time shown starts at the rounded
\* estimate, each tick shows one second less, no negative time is shown, the tick
\* after 0:00 shows the "longer than expected" message and clears the interval,
\* and every countdown started is cleared in the end, answer or no answer.
C36_CountdownRunsOut ==
  /\ [][/\ ((ev' = "generate_sent" /\ intervals' # {})
             => /\ statusMessage'.text = "countdown"
                /\ statusMessage'.remaining = roundedEstimateOfForm)
         /\ (statusMessage'.text = "countdown" => statusMessage'.remaining >= 0)
         /\ ((ev' = "tick" /\ statusMessage.text = "countdown" /\ statusMessage.remaining > 0)
             => /\ statusMessage'.text = "countdown"
                /\ statusMessage'.remaining = statusMessage.remaining - 1
                /\ intervals' # {})
         /\ ((ev' = "tick" /\ statusMessage.text = "countdown" /\ statusMessage.remaining = 0)
             => /\ statusMessage'.text = "longer"
                /\ intervals' = {} /\ countdownIntervalId' = 0)]_vars
  /\ (intervals # {} ~> intervals = {})

C36_RanOutUnanswered ==
  /\ ev = "tick" /\ statusMessage = longerStatus /\ intervals = {}
  /\ \E request \in requests : request.click = clicks /\ request.stage = "fetch"

\* the calls of loadGeoJSONByModelVersion that have finished
finishedLoad(call) == call.stage \in {"returned", "failed", "loaded"}

\* C37: at most one basin layer is on the map, and once every call has finished
\* a layer on the map is the one of the last selection.
C37_OneLayerOfLastSelection ==
  /\ Cardinality({i \in DOMAIN loads : loads[i].onMap}) <= 1
  /\ (\A i \in DOMAIN loads : finishedLoad(loads[i]))
       => \A i \in DOMAIN loads : loads[i].onMap => i = Len(loads)

\* C38: a call of loadGeoJSONByModelVersion that has finished has left none of
\* its loading indicator in the page.
C38_FinishedCallLeftNoIndicator ==
  \A i \in DOMAIN loads : finishedLoad(loads[i]) => ~loads[i].indicator

\* C39: what calculateGridPoints returns is the invalid sentinel or a grid of at
\* least one point along each axis, whose total is the product of the three
\* counts and for which calculateApproxRunTime gives a number.
C39_SentinelOrCountedGrid ==
  ev = "calculateGridPoints"
    => \/ gridData = invalidGrid
       \/ /\ ~isNaN(gridData.nx) /\ gridData.nx >= 1
          /\ ~isNaN(gridData.ny) /\ gridData.ny >= 1
          /\ ~isNaN(gridData.nz) /\ gridData.nz >= 1
          /\ gridData.totalGridPoints = times(times(gridData.nx, gridData.ny), gridData.nz)
          /\ gridData.totalGridPoints >= 1
          /\ ~isNaN(calculateApproxRunTime(gridData.totalGridPoints))
====
